---- MODULE Spec2Model ----
(***************************************************************************)
(* Model of the DynamoDB GSI manager: the operation planner, the ownership *)
(* resolver, the configuration validation and the resumable custom         *)
(* resource handlers (onEventHandler / isCompleteHandler) running against  *)
(* a table whose index mutations complete asynchronously.                  *)
(*                                                                         *)
(* Optional values of the TypeScript types are sequences of length 0 or 1  *)
(* (<<>> is undefined); an optional string is the string "UNDEFINED".      *)
(***************************************************************************)
EXTENDS Integers, Sequences, FiniteSets, TLC

\* ------------------------------------------------------------------------
\* Bounds of the model
\* ------------------------------------------------------------------------

\* longest desired (declared) index list the framework sends
MaxDesired == 2

\* longest prior (OldResourceProperties) index list of an Update event
MaxPrior == 2

\* number of indexes on the table before the first lifecycle event
MaxInitial == 2

\* largest maxRetries an errorHandling override sets
MaxRetriesOverride == 2

\* ------------------------------------------------------------------------
\* Sequence helpers
\* ------------------------------------------------------------------------

Range(s) == {s[i] : i \in 1..Len(s)}

SeqsUpTo(S, n) == UNION {[1..k -> S] : k \in 0..n}

\* Array.prototype.map(gsi => gsi.indexName)
IndexNames(list) == [i \in 1..Len(list) |-> list[i].indexName]

\* Array.prototype.find: <<>> when nothing matches, else <<first match>>
FindByName(list, name) ==
  LET idx == {i \in 1..Len(list) : list[i].indexName = name}
  IN IF idx = {} THEN <<>>
     ELSE <<list[CHOOSE i \in idx : \A j \in idx : i <= j]>>

\* ------------------------------------------------------------------------
\* Domain values (lib/types/gsi-types.ts)
\* ------------------------------------------------------------------------

VALID_ATTRIBUTE_TYPES == {"S", "N", "B"}

VALID_PROJECTION_TYPES == {"ALL", "KEYS_ONLY", "INCLUDE"}

InFlightStatuses == {"CREATING", "UPDATING", "DELETING"}

Attr(n, t) == [name |-> n, type |-> t]

Throughput(r, w) == [readCapacityUnits |-> r, writeCapacityUnits |-> w]

GSIConfiguration(n, pk, sk, pt, nka, tp) ==
  [indexName |-> n, partitionKey |-> pk, sortKey |-> sk,
   projectionType |-> pt, nonKeyAttributes |-> nka,
   provisionedThroughput |-> tp]

\* an index without throughput, as a table may hold it
CfgA == GSIConfiguration("GSI1", Attr("PK1", "S"), <<>>, "UNDEFINED", <<>>, <<>>)

CfgA10 ==
  GSIConfiguration("GSI1", Attr("PK1", "S"), <<>>, "UNDEFINED", <<>>,
                   <<Throughput(10, 10)>>)

CfgAS ==
  GSIConfiguration("GSI1", Attr("PK1", "S"), <<Attr("SK1", "S")>>,
                   "UNDEFINED", <<>>, <<>>)

CfgB == GSIConfiguration("GSI2", Attr("PK2", "S"), <<>>, "ALL", <<>>, <<>>)

\* the declared configurations the framework may send
ConfigPool == {CfgA10, CfgAS, CfgB}

\* the configurations of a prior declaration
PriorPool == {CfgA10, CfgB}

\* ------------------------------------------------------------------------
\* validateGsiConfigurations (lib/types/gsi-types.ts)
\* ------------------------------------------------------------------------

\* !s?.trim(): the string is empty or only white space
IsBlank(s) == s \in {"", " ", "  "}

Issue(k, pos) == [kind |-> k, position |-> pos]

checkAttribute(attribute, role, pos) ==
  IF attribute = <<>>
  THEN IF role = "partitionKey" THEN <<Issue("missingPartitionKey", pos)>> ELSE <<>>
  ELSE (IF IsBlank(attribute[1].name)
        THEN <<Issue("missingAttributeName", pos)>> ELSE <<>>)
       \o (IF attribute[1].type \notin VALID_ATTRIBUTE_TYPES
           THEN <<Issue("invalidType", pos)>> ELSE <<>>)

\* the issues of the entry at position i, seenNames being the names accepted before it
ConfigIssues(configurations, i) ==
  LET config == configurations[i]
      seenNames == {configurations[j].indexName : j \in
                      {k \in 1..(i - 1) : ~IsBlank(configurations[k].indexName)}}
  IN (IF IsBlank(config.indexName) THEN <<Issue("missingIndexName", i)>>
      ELSE IF config.indexName \in seenNames THEN <<Issue("duplicateIndexName", i)>>
      ELSE <<>>)
     \o checkAttribute(<<config.partitionKey>>, "partitionKey", i)
     \o checkAttribute(config.sortKey, "sortKey", i)
     \o (IF config.projectionType # "UNDEFINED"
            /\ config.projectionType \notin VALID_PROJECTION_TYPES
         THEN <<Issue("invalidProjectionType", i)>> ELSE <<>>)

RECURSIVE IssuesUpTo(_, _)
IssuesUpTo(configurations, n) ==
  IF n = 0 THEN <<>>
  ELSE IssuesUpTo(configurations, n - 1) \o ConfigIssues(configurations, n)

\* variant: the first problem found ends the validation
validateGsiConfigurations_firstOnly(configurations) ==
  LET issues == IssuesUpTo(configurations, Len(configurations))
  IN IF issues = <<>> THEN <<>> ELSE <<issues[1]>>

\* variant: the check for a name defined more than once is missing
validateGsiConfigurations_noDuplicateCheck(configurations) ==
  LET NotDuplicate(issue) == issue.kind # "duplicateIndexName"
  IN SelectSeq(IssuesUpTo(configurations, Len(configurations)), NotDuplicate)

validateGsiConfigurations(configurations) ==
  IssuesUpTo(configurations, Len(configurations))

\* ------------------------------------------------------------------------
\* Operation planner (operation-planner.ts)
\* ------------------------------------------------------------------------

\* Map.get on the map built by toKeySchemaMap: a later entry of the same
\* attribute name overwrites an earlier one
toKeySchemaMap(info, attributeName) ==
  LET idx == {i \in 1..Len(info.keySchema) :
                info.keySchema[i].attributeName = attributeName}
  IN IF idx = {} THEN "UNDEFINED"
     ELSE info.keySchema[CHOOSE i \in idx : \A j \in idx : j <= i].keyType

\* [...schema.entries()].find(entry => entry[1] === "RANGE"): map entries are
\* in the order of the first insertion of their key
currentSortEntry(info) ==
  LET ks == info.keySchema
      firstIdx == {i \in 1..Len(ks) :
                     /\ \A j \in 1..(i - 1) : ks[j].attributeName # ks[i].attributeName
                     /\ toKeySchemaMap(info, ks[i].attributeName) = "RANGE"}
  IN IF firstIdx = {} THEN <<>>
     ELSE <<ks[CHOOSE i \in firstIdx : \A j \in firstIdx : i <= j].attributeName>>

arraysEqualIgnoreOrder(a, b) ==
  IF Len(a) # Len(b) THEN FALSE
  ELSE \A i \in 1..Len(b) : b[i] \in Range(a)

\* variant: the attribute lists are compared whatever the projection type
projectionChanged_comparesAlways(current, desired) ==
  LET currentProjection == current.projection.projectionType
      desiredProjection == IF desired.projectionType = "UNDEFINED" THEN "ALL"
                           ELSE desired.projectionType
  IN IF currentProjection # desiredProjection THEN TRUE
     ELSE ~arraysEqualIgnoreOrder(current.projection.nonKeyAttributes,
                                  desired.nonKeyAttributes)

projectionChanged(current, desired) ==
  LET currentProjection == current.projection.projectionType
      desiredProjection == IF desired.projectionType = "UNDEFINED" THEN "ALL"
                           ELSE desired.projectionType
  IN IF currentProjection # desiredProjection THEN TRUE
     ELSE IF desiredProjection = "INCLUDE"
          THEN ~arraysEqualIgnoreOrder(current.projection.nonKeyAttributes,
                                       desired.nonKeyAttributes)
          ELSE FALSE

\* variant: a sort key of another name is not seen as a change
keySchemaChanged_ignoresSortName(current, desired) ==
  LET desiredPartition == desired.partitionKey.name
      desiredSort == IF desired.sortKey = <<>> THEN <<>>
                     ELSE IF desired.sortKey[1].name = "" THEN <<>>
                     ELSE <<desired.sortKey[1].name>>
      sortEntry == currentSortEntry(current)
  IN IF toKeySchemaMap(current, desiredPartition) # "HASH" THEN TRUE
     ELSE IF desiredSort = <<>> /\ sortEntry # <<>> THEN TRUE
     ELSE IF desiredSort # <<>> /\ sortEntry = <<>> THEN TRUE
     ELSE FALSE

keySchemaChanged(current, desired) ==
  LET desiredPartition == desired.partitionKey.name
      desiredSort == IF desired.sortKey = <<>> THEN <<>>
                     ELSE IF desired.sortKey[1].name = "" THEN <<>>
                     ELSE <<desired.sortKey[1].name>>
      sortEntry == currentSortEntry(current)
  IN IF toKeySchemaMap(current, desiredPartition) # "HASH" THEN TRUE
     ELSE IF desiredSort = <<>> /\ sortEntry # <<>> THEN TRUE
     ELSE IF desiredSort # <<>> /\ (sortEntry = <<>> \/ sortEntry # desiredSort) THEN TRUE
     ELSE FALSE

\* variant: the throughput the index has is not compared
shouldUpdateThroughput_ignoresCurrent(current, desired) ==
  desired.provisionedThroughput # <<>>

\* variant: the write capacity is not compared
shouldUpdateThroughput_readOnly(current, desired) ==
  IF desired.provisionedThroughput = <<>> THEN FALSE
  ELSE IF current.provisionedThroughput = <<>> THEN TRUE
  ELSE current.provisionedThroughput[1].readCapacityUnits #
         desired.provisionedThroughput[1].readCapacityUnits

shouldUpdateThroughput(current, desired) ==
  IF desired.provisionedThroughput = <<>> THEN FALSE
  ELSE IF current.provisionedThroughput = <<>> THEN TRUE
  ELSE \/ current.provisionedThroughput[1].readCapacityUnits #
            desired.provisionedThroughput[1].readCapacityUnits
       \/ current.provisionedThroughput[1].writeCapacityUnits #
            desired.provisionedThroughput[1].writeCapacityUnits

GSIOperation(t, n, d, c) ==
  [type |-> t, indexName |-> n, desiredConfiguration |-> d,
   currentConfiguration |-> c]

\* new Map(current.map(gsi => [gsi.indexName, gsi])).get(name): the last
\* entry of that name
currentMapGet(current, name) ==
  LET idx == {i \in 1..Len(current) : current[i].indexName = name}
  IN IF idx = {} THEN <<>>
     ELSE <<current[CHOOSE i \in idx : \A j \in idx : j <= i]>>

\* variant: an index that is not declared is left alone
planRemoved_keepsUndeclared(current, desired, n) == <<>>

\* first loop: a DELETE for every current index whose name is not desired
RECURSIVE planRemoved(_, _, _)
planRemoved(current, desired, n) ==
  IF n = 0 THEN <<>>
  ELSE planRemoved(current, desired, n - 1) \o
       (IF current[n].indexName \notin Range(IndexNames(desired))
        THEN <<GSIOperation("DELETE", current[n].indexName, <<>>, <<current[n]>>)>>
        ELSE <<>>)

\* variant: a recreate is planned as CREATE first, DELETE second
planDesiredEntry_createBeforeDelete(current, config) ==
  LET existing == currentMapGet(current, config.indexName)
  IN IF existing = <<>>
     THEN <<GSIOperation("CREATE", config.indexName, <<config>>, <<>>)>>
     ELSE IF keySchemaChanged(existing[1], config) \/ projectionChanged(existing[1], config)
     THEN <<GSIOperation("CREATE", config.indexName, <<config>>, <<>>),
            GSIOperation("DELETE", existing[1].indexName, <<>>, existing)>>
     ELSE IF shouldUpdateThroughput(existing[1], config)
     THEN <<GSIOperation("UPDATE", config.indexName, <<config>>, existing)>>
     ELSE <<>>

\* variant: a changed projection is planned as an UPDATE in place
planDesiredEntry_updateInPlace(current, config) ==
  LET existing == currentMapGet(current, config.indexName)
  IN IF existing = <<>>
     THEN <<GSIOperation("CREATE", config.indexName, <<config>>, <<>>)>>
     ELSE IF keySchemaChanged(existing[1], config)
     THEN <<GSIOperation("DELETE", existing[1].indexName, <<>>, existing),
            GSIOperation("CREATE", config.indexName, <<config>>, <<>>)>>
     ELSE IF shouldUpdateThroughput(existing[1], config)
             \/ projectionChanged(existing[1], config)
     THEN <<GSIOperation("UPDATE", config.indexName, <<config>>, existing)>>
     ELSE <<>>

\* variant: the DELETE of a recreate does not carry the configuration it
\* removes
planDesiredEntry_deleteWithoutCurrent(current, config) ==
  LET existing == currentMapGet(current, config.indexName)
  IN IF existing = <<>>
     THEN <<GSIOperation("CREATE", config.indexName, <<config>>, <<>>)>>
     ELSE IF keySchemaChanged(existing[1], config) \/ projectionChanged(existing[1], config)
     THEN <<GSIOperation("DELETE", existing[1].indexName, <<>>, <<>>),
            GSIOperation("CREATE", config.indexName, <<config>>, <<>>)>>
     ELSE IF shouldUpdateThroughput(existing[1], config)
     THEN <<GSIOperation("UPDATE", config.indexName, <<config>>, existing)>>
     ELSE <<>>

\* the decision of the second loop for one desired entry
planDesiredEntry(current, config) ==
  LET existing == currentMapGet(current, config.indexName)
  IN IF existing = <<>>
     THEN <<GSIOperation("CREATE", config.indexName, <<config>>, <<>>)>>
     ELSE IF keySchemaChanged(existing[1], config) \/ projectionChanged(existing[1], config)
     THEN <<GSIOperation("DELETE", existing[1].indexName, <<>>, existing),
            GSIOperation("CREATE", config.indexName, <<config>>, <<>>)>>
     ELSE IF shouldUpdateThroughput(existing[1], config)
     THEN <<GSIOperation("UPDATE", config.indexName, <<config>>, existing)>>
     ELSE <<>>

RECURSIVE planDesired(_, _, _)
planDesired(current, desired, n) ==
  IF n = 0 THEN <<>>
  ELSE planDesired(current, desired, n - 1) \o planDesiredEntry(current, desired[n])

\* variant: the decisions for the desired entries come before the removals
planGsiOperations_desiredFirst(current, desired) ==
  planDesired(current, desired, Len(desired)) \o
  planRemoved(current, desired, Len(current))

planGsiOperations(current, desired) ==
  planRemoved(current, desired, Len(current)) \o
  planDesired(current, desired, Len(desired))

\* ------------------------------------------------------------------------
\* Ownership resolver (gsi-config-utils.ts)
\* ------------------------------------------------------------------------

\* variant: the names of the prior list are not collected
collectManagedNames_desiredOnly(desired, prior) == Range(IndexNames(desired))

\* prior is <<>> (no prior list) or <<list>>
collectManagedNames(desired, prior) ==
  Range(IndexNames(desired)) \cup
  (IF prior = <<>> THEN {} ELSE Range(IndexNames(prior[1])))

\* variant: indexes outside the managed names are never taken over
resolveCurrentForPlanning_neverAdopt(requestType, current, managedNames) ==
  LET IsTracked(gsi) == gsi.indexName \in managedNames
      IsUntracked(gsi) == gsi.indexName \notin managedNames
  IN [candidates |-> SelectSeq(current, IsTracked),
      adoptedLegacyIndexes |-> FALSE,
      untrackedCount |-> Len(SelectSeq(current, IsUntracked))]

\* variant: untracked indexes are adopted whatever the request type
resolveCurrentForPlanning_alwaysAdopt(requestType, current, managedNames) ==
  LET IsUntracked(gsi) == gsi.indexName \notin managedNames
      untracked == SelectSeq(current, IsUntracked)
  IN [candidates |-> current,
      adoptedLegacyIndexes |-> Len(untracked) > 0,
      untrackedCount |-> Len(untracked)]

resolveCurrentForPlanning(requestType, current, managedNames) ==
  IF Cardinality(managedNames) = 0
  THEN [candidates |-> current,
        adoptedLegacyIndexes |-> (requestType # "Create" /\ Len(current) > 0),
        untrackedCount |-> Len(current)]
  ELSE LET IsTracked(gsi) == gsi.indexName \in managedNames
           IsUntracked(gsi) == gsi.indexName \notin managedNames
           tracked == SelectSeq(current, IsTracked)
           untracked == SelectSeq(current, IsUntracked)
           shouldAdopt == requestType \in {"Update", "Delete"} /\ Len(untracked) > 0
       IN [candidates |-> IF shouldAdopt THEN current ELSE tracked,
           adoptedLegacyIndexes |-> shouldAdopt,
           untrackedCount |-> Len(untracked)]

\* ------------------------------------------------------------------------
\* The table: its index listing and its status.  Mutations are accepted
\* asynchronously: an accepted mutation leaves the index CREATING, UPDATING
\* or DELETING until the store completes it.
\* ------------------------------------------------------------------------

Table(ix, st) == [indexes |-> ix, tableStatus |-> st]

\* dynamodb-gsi-service.ts: the request createGSI sends
toKeySchema(gsiConfig) ==
  <<[attributeName |-> gsiConfig.partitionKey.name, keyType |-> "HASH"]>> \o
  (IF gsiConfig.sortKey = <<>> THEN <<>>
   ELSE <<[attributeName |-> gsiConfig.sortKey[1].name, keyType |-> "RANGE"]>>)

toProjection(gsiConfig) ==
  LET projectionType == IF gsiConfig.projectionType = "UNDEFINED" THEN "ALL"
                        ELSE gsiConfig.projectionType
  IN [projectionType |-> projectionType,
      nonKeyAttributes |-> IF projectionType = "INCLUDE"
                           THEN gsiConfig.nonKeyAttributes ELSE <<>>]

toProvisionedThroughput(gsiConfig) == gsiConfig.provisionedThroughput

\* the index description the table lists for an index created from gsiConfig
GSIInfo(gsiConfig, status) ==
  [indexName |-> gsiConfig.indexName,
   keySchema |-> toKeySchema(gsiConfig),
   projection |-> toProjection(gsiConfig),
   indexStatus |-> status,
   provisionedThroughput |-> toProvisionedThroughput(gsiConfig)]

getCurrentGSIs(t) == t.indexes

isTableActive(t) == t.tableStatus = "ACTIVE"

isGSIInStatus(t, indexName, targetStatus) ==
  LET match == FindByName(getCurrentGSIs(t), indexName)
  IN IF targetStatus = "DELETED" THEN match = <<>>
     ELSE match # <<>> /\ match[1].indexStatus = targetStatus

InFlightNames(t) ==
  {t.indexes[i].indexName : i \in
     {j \in 1..Len(t.indexes) : t.indexes[j].indexStatus \in InFlightStatuses}}

\* the table once the store has completed the mutations of the indexes in done
CompleteIndexes(t, done) ==
  LET Remains(gsi) == ~(gsi.indexName \in done /\ gsi.indexStatus = "DELETING")
      kept == SelectSeq(t.indexes, Remains)
  IN Table([i \in 1..Len(kept) |->
              IF kept[i].indexName \in done
              THEN [kept[i] EXCEPT !.indexStatus = "ACTIVE"] ELSE kept[i]],
           t.tableStatus)

\* every table the store may show after some time has passed
Progress(t) ==
  {Table(CompleteIndexes(t, done).indexes, st) :
     done \in SUBSET InFlightNames(t),
     st \in {t.tableStatus, "ACTIVE"}}

Mutation(t, n, c) == [type |-> t, indexName |-> n, config |-> c]

\* the store can carry the mutation out at all
Applicable(t, m) ==
  LET match == FindByName(t.indexes, m.indexName)
  IN CASE m.type = "CREATE" -> match = <<>>
       [] m.type = "DELETE" -> match # <<>> /\ match[1].indexStatus # "DELETING"
       [] OTHER -> match # <<>> /\ match[1].indexStatus # "DELETING"

\* the table after the store accepted the mutation
Accepted(t, m) ==
  CASE m.type = "CREATE" ->
         Table(Append(t.indexes, GSIInfo(m.config[1], "CREATING")), "UPDATING")
    [] m.type = "DELETE" ->
         Table([i \in 1..Len(t.indexes) |->
                  IF t.indexes[i].indexName = m.indexName
                  THEN [t.indexes[i] EXCEPT !.indexStatus = "DELETING"]
                  ELSE t.indexes[i]], "UPDATING")
    [] OTHER ->
         Table([i \in 1..Len(t.indexes) |->
                  IF t.indexes[i].indexName = m.indexName
                  THEN [t.indexes[i] EXCEPT
                          !.indexStatus = "UPDATING",
                          !.provisionedThroughput = m.config[1].provisionedThroughput]
                  ELSE t.indexes[i]], "UPDATING")

\* UpdateTable: the outcomes of sending the mutation.  A mutation on a table
\* that has another mutation in flight may be refused (after the retries)
UpdateTable(t, m) ==
  LET sent == [type |-> m.type, indexName |-> m.indexName]
      ok == [table |-> Accepted(t, m), issued |-> <<sent>>, error |-> "none"]
      refused == [table |-> t, issued |-> <<sent>>, error |-> "store"]
  IN IF ~Applicable(t, m) THEN {refused}
     ELSE IF InFlightNames(t) # {} \/ t.tableStatus # "ACTIVE" THEN {ok, refused}
     ELSE {ok}

createGSI(t, gsiConfig) ==
  UpdateTable(t, Mutation("CREATE", gsiConfig.indexName, <<gsiConfig>>))

updateGSI(t, gsiConfig) ==
  IF gsiConfig.provisionedThroughput = <<>>
  THEN {[table |-> t, issued |-> <<>>, error |-> "none"]}
  ELSE UpdateTable(t, Mutation("UPDATE", gsiConfig.indexName, <<gsiConfig>>))

deleteGSI(t, indexName) == UpdateTable(t, Mutation("DELETE", indexName, <<>>))

\* the blocking wait: the tables in which it returns (ok) or gives up
waitForTableActive(t) ==
  {[table |-> s, ok |-> isTableActive(s)] : s \in Progress(t)}

\* variant: an index that is listed counts as ACTIVE
waitForGSIStatus_listedIsEnough(t, indexName, targetStatus) ==
  {[table |-> s,
    ok |-> LET match == FindByName(s.indexes, indexName)
           IN IF targetStatus = "DELETED" THEN match = <<>>
              ELSE match # <<>>] :
   s \in Progress(t)}

\* the blocking wait for an index: it returns (ok) when the index is not
\* listed (DELETED) or is listed with the target status, or gives up
waitForGSIStatus(t, indexName, targetStatus) ==
  {[table |-> s,
    ok |-> LET match == FindByName(s.indexes, indexName)
           IN IF targetStatus = "DELETED" THEN match = <<>>
              ELSE match # <<>> /\ match[1].indexStatus = targetStatus] :
   s \in Progress(t)}

\* ------------------------------------------------------------------------
\* The lifecycle event and the record of one handler invocation
\* ------------------------------------------------------------------------

\* prior: <<>> or <<the prior declared list>>
Event(kind, desired, prior) ==
  [RequestType |-> kind, desired |-> desired, prior |-> prior]

NoEvent == Event("None", <<>>, <<>>)

\* OldResourceProperties are read on Update only
oldProps(event) == IF event.RequestType = "Update" THEN event.prior ELSE <<>>

\* what one invocation read, decided, sent and returned
Call(entry, event) ==
  [entry |-> entry, kind |-> event.RequestType,
   issues |-> <<>>,
   observed |-> <<>>, managedNames |-> {},
   candidates |-> <<>>, adopted |-> FALSE, untrackedCount |-> 0,
   planned |-> FALSE, plan |-> <<>>,
   issued |-> <<>>, precededBy |-> "none",
   outcome |-> "incomplete", error |-> "none", data |-> <<>>]

NoCall == Call("none", NoEvent)

\* Array.prototype.join(","): the first n names separated by commas
RECURSIVE join(_, _)
join(names, n) ==
  IF n = 0 THEN ""
  ELSE IF n = 1 THEN names[1]
  ELSE join(names, n - 1) \o "," \o names[n]

\* Data of a response: operationsExecuted and the declared names, joined
ResponseData(n, desired) ==
  <<[operationsExecuted |-> n,
     managedIndexes |-> join(IndexNames(desired), Len(desired))]>>

Result(t, call) == [table |-> t, call |-> call]

\* ------------------------------------------------------------------------
\* startOperation (handler.ts and is-complete-handler.ts): wait for the table
\* and send the mutation of one operation
\* ------------------------------------------------------------------------

sendOperation(t, operation) ==
  CASE operation.type = "DELETE" -> deleteGSI(t, operation.indexName)
    [] operation.type = "CREATE" ->
         IF operation.desiredConfiguration = <<>>
         THEN {[table |-> t, issued |-> <<>>, error |-> "invariant"]}
         ELSE createGSI(t, operation.desiredConfiguration[1])
    [] operation.type = "UPDATE" ->
         IF operation.desiredConfiguration = <<>>
         THEN {[table |-> t, issued |-> <<>>, error |-> "invariant"]}
         ELSE updateGSI(t, operation.desiredConfiguration[1])
    [] OTHER -> {[table |-> t, issued |-> <<>>, error |-> "invariant"]}

\* what a call did last before it sent r, or before it gave up: the blocking
\* wait "waitForTableActive", the single describe "isTableActive", or "none"
Preceded(by, r) ==
  [table |-> r.table, issued |-> r.issued, error |-> r.error, precededBy |-> by]

\* variant: after sending, the index is awaited until the store is done with
\* it, as the synchronous handler does
startOperation_untilDone(t, operation) ==
  UNION {IF w.ok
         THEN {[table |-> IF sent.error = "none"
                          THEN Table(CompleteIndexes(sent.table,
                                                     {operation.indexName}).indexes,
                                     "ACTIVE")
                          ELSE sent.table,
                issued |-> sent.issued, error |-> sent.error,
                precededBy |-> "waitForTableActive"] :
               sent \in sendOperation(w.table, operation)}
         ELSE {[table |-> w.table, issued |-> <<>>, error |-> "timeout",
                precededBy |-> "waitForTableActive"]} :
         w \in waitForTableActive(t)}

\* variant: the mutation is sent without looking at the table first
startOperation_noWait(t, operation) ==
  {Preceded("none", sent) : sent \in sendOperation(t, operation)}

startOperation(t, operation) ==
  UNION {IF w.ok
         THEN {Preceded("waitForTableActive", sent) :
               sent \in sendOperation(w.table, operation)}
         ELSE {[table |-> w.table, issued |-> <<>>, error |-> "timeout",
                precededBy |-> "waitForTableActive"]} :
         w \in waitForTableActive(t)}

\* the invocation ends when startOperation returns or throws
AfterStart(call, started) ==
  Result(started.table,
         [call EXCEPT !.issued = started.issued,
                      !.precededBy = started.precededBy,
                      !.error = started.error,
                      !.outcome = IF started.error = "none" THEN "incomplete"
                                  ELSE "error"])

\* ------------------------------------------------------------------------
\* onEventHandler (handler.ts)
\* ------------------------------------------------------------------------

handleCreateOrUpdateAsync(t, event) ==
  LET errors == validateGsiConfigurations(event.desired)
      managedNames == collectManagedNames(event.desired, oldProps(event))
      current == getCurrentGSIs(t)
      resolved == resolveCurrentForPlanning(event.RequestType, current, managedNames)
      operations == planGsiOperations(resolved.candidates, event.desired)
      call == [Call("start", event) EXCEPT
                 !.observed = current, !.managedNames = managedNames,
                 !.candidates = resolved.candidates,
                 !.adopted = resolved.adoptedLegacyIndexes,
                 !.untrackedCount = resolved.untrackedCount,
                 !.planned = TRUE, !.plan = operations]
  IN IF errors # <<>>
     THEN {Result(t, [Call("start", event) EXCEPT
                        !.issues = errors, !.outcome = "error",
                        !.error = "validation"])}
     ELSE IF Len(operations) = 0
     THEN {Result(t, [call EXCEPT !.outcome = "complete",
                                  !.data = ResponseData(0, event.desired)])}
     ELSE {AfterStart(call, started) : started \in startOperation(t, operations[1])}

handleDeleteAsync(t, event) ==
  LET managedNames == collectManagedNames(event.desired, <<>>)
      current == getCurrentGSIs(t)
      resolved == resolveCurrentForPlanning(event.RequestType, current, managedNames)
      targets == resolved.candidates
      operations == [i \in 1..Len(targets) |->
                       GSIOperation("DELETE", targets[i].indexName, <<>>, <<targets[i]>>)]
      call == [Call("start", event) EXCEPT
                 !.observed = current, !.managedNames = managedNames,
                 !.candidates = targets,
                 !.adopted = resolved.adoptedLegacyIndexes,
                 !.untrackedCount = resolved.untrackedCount,
                 !.planned = TRUE, !.plan = operations]
  IN IF Len(targets) = 0
     THEN {Result(t, [call EXCEPT !.outcome = "complete",
                                  !.data = ResponseData(0, event.desired)])}
     ELSE {AfterStart(call, started) : started \in startOperation(t, operations[1])}

onEventHandler(t, event) ==
  IF event.RequestType \in {"Create", "Update"}
  THEN handleCreateOrUpdateAsync(t, event)
  ELSE handleDeleteAsync(t, event)

\* ------------------------------------------------------------------------
\* isCompleteHandler (is-complete-handler.ts)
\* ------------------------------------------------------------------------

\* the probes of checkOperationComplete: [table, complete] for every table
\* the two describe calls may see
checkOperationComplete(t, operation) ==
  UNION {IF ~isTableActive(s1) THEN {[table |-> s1, complete |-> FALSE]}
         ELSE {[table |-> s2,
                complete |-> isGSIInStatus(s2, operation.indexName,
                               IF operation.type = "DELETE" THEN "DELETED" ELSE "ACTIVE")] :
               s2 \in Progress(s1)} :
         s1 \in Progress(t)}

\* variant: the count is the length of the plan of this invocation
Complete_planLength(t, call, event) ==
  Result(t, [call EXCEPT !.outcome = "complete",
                         !.data = ResponseData(Len(call.plan), event.desired)])

Complete(t, call, event) ==
  Result(t, [call EXCEPT !.outcome = "complete",
                         !.data = ResponseData(Len(event.desired), event.desired)])

\* variant: the summary data is attached to a response that is not complete
Incomplete_withData(t, call) ==
  Result(t, [call EXCEPT !.data = ResponseData(0, <<>>)])

Incomplete(t, call) == Result(t, call)

\* variant: the request is complete as soon as the first candidate is gone
isCompleteDelete_firstGoneIsDone(t, event, call) ==
  LET existingManaged == call.candidates
      gsi == existingManaged[1]
  IN IF Len(existingManaged) = 0 THEN {Complete(t, call, event)}
     ELSE UNION {
       IF isGSIInStatus(s1, gsi.indexName, "DELETED")
       THEN {Complete(s1, call, event)}
       ELSE IF gsi.indexStatus # "DELETING"
       THEN UNION {
              IF isTableActive(s2)
              THEN {AfterStart(call, Preceded("isTableActive", sent)) :
                    sent \in deleteGSI(s2, gsi.indexName)}
              ELSE {Incomplete(s2, call)} :
              s2 \in Progress(s1)}
       ELSE {Incomplete(s1, call)} :
       s1 \in Progress(t)}

\* variant: the deletion is sent through startOperation, which waits for the
\* table
isCompleteDelete_blockingWait(t, event, call) ==
  LET existingManaged == call.candidates
      gsi == existingManaged[1]
  IN IF Len(existingManaged) = 0 THEN {Complete(t, call, event)}
     ELSE UNION {
       IF isGSIInStatus(s1, gsi.indexName, "DELETED")
       THEN IF Len(existingManaged) > 1 THEN {Incomplete(s1, call)}
            ELSE {Complete(s1, call, event)}
       ELSE IF gsi.indexStatus # "DELETING"
       THEN {AfterStart(call, started) :
             started \in startOperation(s1, GSIOperation("DELETE", gsi.indexName,
                                                         <<>>, <<gsi>>))}
       ELSE {Incomplete(s1, call)} :
       s1 \in Progress(t)}

\* variant: a first candidate that is listed as DELETING counts as gone
isCompleteDelete_deletingIsDone(t, event, call) ==
  LET existingManaged == call.candidates
      gsi == existingManaged[1]
  IN IF Len(existingManaged) = 0 THEN {Complete(t, call, event)}
     ELSE UNION {
       IF isGSIInStatus(s1, gsi.indexName, "DELETED") \/ gsi.indexStatus = "DELETING"
       THEN IF Len(existingManaged) > 1 THEN {Incomplete(s1, call)}
            ELSE {Complete(s1, call, event)}
       ELSE UNION {
              IF isTableActive(s2)
              THEN {AfterStart(call, Preceded("isTableActive", sent)) :
                    sent \in deleteGSI(s2, gsi.indexName)}
              ELSE {Incomplete(s2, call)} :
              s2 \in Progress(s1)} :
       s1 \in Progress(t)}

\* Delete request: the resolved candidates are deleted one at a time
isCompleteDelete(t, event, call) ==
  LET existingManaged == call.candidates
      gsi == existingManaged[1]
  IN IF Len(existingManaged) = 0 THEN {Complete(t, call, event)}
     ELSE UNION {
       IF isGSIInStatus(s1, gsi.indexName, "DELETED")
       THEN IF Len(existingManaged) > 1 THEN {Incomplete(s1, call)}
            ELSE {Complete(s1, call, event)}
       ELSE IF gsi.indexStatus # "DELETING"
       THEN UNION {
              IF isTableActive(s2)
              THEN {AfterStart(call, Preceded("isTableActive", sent)) :
                    sent \in deleteGSI(s2, gsi.indexName)}
              ELSE {Incomplete(s2, call)} :
              s2 \in Progress(s1)}
       ELSE {Incomplete(s1, call)} :
       s1 \in Progress(t)}

\* the first operation of the plan is not complete: start it unless started
startFirstOperation(t, current, operation, call) ==
  LET currentGSI == FindByName(current, operation.indexName)
      started == {AfterStart(call, st) : st \in startOperation(t, operation)}
  IN CASE operation.type = "CREATE" ->
            IF currentGSI = <<>> THEN started ELSE {Incomplete(t, call)}
       [] operation.type = "DELETE" ->
            IF currentGSI # <<>> /\ currentGSI[1].indexStatus # "DELETING"
            THEN started ELSE {Incomplete(t, call)}
       [] operation.type = "UPDATE" -> started
       [] OTHER -> {Result(t, [call EXCEPT !.outcome = "error", !.error = "invariant"])}

\* variant: an empty plan is not reported as the end of the work
isCompleteCreateOrUpdate_neverDone(t, event, call0) ==
  LET managedCurrent == call0.candidates
      inProgress == {i \in 1..Len(managedCurrent) :
                       managedCurrent[i].indexStatus \in InFlightStatuses}
      operations == planGsiOperations(managedCurrent, event.desired)
      call == [call0 EXCEPT !.planned = TRUE, !.plan = operations]
  IN IF inProgress # {}
     THEN {Incomplete(s, call0) : s \in Progress(t)}
     ELSE IF Len(operations) = 0 THEN {Incomplete(t, call)}
     ELSE UNION {
       IF probe.complete
       THEN IF Len(operations) > 1 THEN {Incomplete(probe.table, call)}
            ELSE {Complete(probe.table, call, event)}
       ELSE startFirstOperation(probe.table, call.observed, operations[1], call) :
       probe \in checkOperationComplete(t, operations[1])}

\* variant: the plan is made and acted on although a candidate is mid-mutation
isCompleteCreateOrUpdate_noGuard(t, event, call0) ==
  LET managedCurrent == call0.candidates
      operations == planGsiOperations(managedCurrent, event.desired)
      call == [call0 EXCEPT !.planned = TRUE, !.plan = operations]
  IN IF Len(operations) = 0 THEN {Complete(t, call, event)}
     ELSE UNION {
       IF probe.complete
       THEN IF Len(operations) > 1 THEN {Incomplete(probe.table, call)}
            ELSE {Complete(probe.table, call, event)}
       ELSE startFirstOperation(probe.table, call.observed, operations[1], call) :
       probe \in checkOperationComplete(t, operations[1])}

\* Create and Update requests
isCompleteCreateOrUpdate(t, event, call0) ==
  LET managedCurrent == call0.candidates
      inProgress == {i \in 1..Len(managedCurrent) :
                       managedCurrent[i].indexStatus \in InFlightStatuses}
      operations == planGsiOperations(managedCurrent, event.desired)
      call == [call0 EXCEPT !.planned = TRUE, !.plan = operations]
  IN IF inProgress # {}
     THEN {Incomplete(s, call0) : s \in Progress(t)}
     ELSE IF Len(operations) = 0 THEN {Complete(t, call, event)}
     ELSE UNION {
       IF probe.complete
       THEN IF Len(operations) > 1 THEN {Incomplete(probe.table, call)}
            ELSE {Complete(probe.table, call, event)}
       ELSE startFirstOperation(probe.table, call.observed, operations[1], call) :
       probe \in checkOperationComplete(t, operations[1])}

\* variant: the declared list is validated first, as onEventHandler does
isCompleteHandler_validating(t, event) ==
  LET errors == validateGsiConfigurations(event.desired)
      managedNames == collectManagedNames(event.desired, oldProps(event))
      current == getCurrentGSIs(t)
      resolved == resolveCurrentForPlanning(event.RequestType, current, managedNames)
      call == [Call("poll", event) EXCEPT
                 !.observed = current, !.managedNames = managedNames,
                 !.candidates = resolved.candidates,
                 !.adopted = resolved.adoptedLegacyIndexes,
                 !.untrackedCount = resolved.untrackedCount]
  IN IF errors # <<>>
     THEN {Result(t, [Call("poll", event) EXCEPT
                        !.issues = errors, !.outcome = "error",
                        !.error = "validation"])}
     ELSE IF event.RequestType = "Delete"
     THEN isCompleteDelete(t, event, call)
     ELSE isCompleteCreateOrUpdate(t, event, call)

isCompleteHandler(t, event) ==
  LET managedNames == collectManagedNames(event.desired, oldProps(event))
      current == getCurrentGSIs(t)
      resolved == resolveCurrentForPlanning(event.RequestType, current, managedNames)
      call == [Call("poll", event) EXCEPT
                 !.observed = current, !.managedNames = managedNames,
                 !.candidates = resolved.candidates,
                 !.adopted = resolved.adoptedLegacyIndexes,
                 !.untrackedCount = resolved.untrackedCount]
  IN IF event.RequestType = "Delete"
     THEN isCompleteDelete(t, event, call)
     ELSE isCompleteCreateOrUpdate(t, event, call)

\* ------------------------------------------------------------------------
\* The physical id of a response (handler.ts) and the property bag
\* (gsi-config-utils.ts).  A key the bag does not hold, and an id the event
\* does not carry, is the string "UNDEFINED".
\* ------------------------------------------------------------------------

PropertyBag(lower, capitalized) == [tableName |-> lower, TableName |-> capitalized]

IdEvent(kind, id, bag) ==
  [RequestType |-> kind, PhysicalResourceId |-> id, ResourceProperties |-> bag]

\* the camelCase key first, then the PascalCase key
pickVariant(record, key) ==
  IF key = "tableName"
  THEN IF record.tableName # "UNDEFINED" THEN record.tableName
       ELSE record.TableName
  ELSE "UNDEFINED"

\* the table name the handlers work on
parseManagerProps(props) ==
  LET tableNameSource == pickVariant(props, "tableName")
  IN [tableName |-> IF tableNameSource # "UNDEFINED" THEN tableNameSource ELSE ""]

ensurePhysicalId(event) ==
  IF event.PhysicalResourceId # "UNDEFINED" /\ Len(event.PhysicalResourceId) > 0
  THEN event.PhysicalResourceId
  ELSE "GSIManager-" \o
       (IF event.ResourceProperties.tableName # "UNDEFINED"
        THEN event.ResourceProperties.tableName
        ELSE "UnknownTable")

\* ------------------------------------------------------------------------
\* Error handling configuration (lib/types/gsi-types.ts) and the backoff
\* executor (error-handling.ts)
\* ------------------------------------------------------------------------

ErrorHandlingConfig(maxRetries, baseDelayMs, maxDelayMs, codes) ==
  [maxRetries |-> maxRetries, baseDelayMs |-> baseDelayMs,
   maxDelayMs |-> maxDelayMs, retryableErrorCodes |-> codes]

DEFAULT_ERROR_CONFIG ==
  ErrorHandlingConfig(5, 1000, 30000,
                      {"ThrottlingException",
                       "ProvisionedThroughputExceededException",
                       "ResourceInUseException"})

\* override is <<>> (none) or <<partial>>, every field of the partial being
\* <<>> (not set) or <<value>>
mergeErrorHandlingConfig(override) ==
  IF override = <<>> THEN DEFAULT_ERROR_CONFIG
  ELSE LET Or(field, default) == IF field = <<>> THEN default ELSE field[1]
       IN ErrorHandlingConfig(
            Or(override[1].maxRetries, DEFAULT_ERROR_CONFIG.maxRetries),
            Or(override[1].baseDelayMs, DEFAULT_ERROR_CONFIG.baseDelayMs),
            Or(override[1].maxDelayMs, DEFAULT_ERROR_CONFIG.maxDelayMs),
            Or(override[1].retryableErrorCodes,
               DEFAULT_ERROR_CONFIG.retryableErrorCodes))

\* a value the wrapped operation throws: an Error instance, another object,
\* a string or undefined; a field the value does not have is "UNDEFINED"
Thrown(kind, code, name, message) ==
  [kind |-> kind, code |-> code, name |-> name, message |-> message]

\* variant: the name is looked at before the code
getErrorCode_nameFirst(error) ==
  IF error.kind \notin {"Error", "object"} THEN "UNDEFINED"
  ELSE IF error.name # "UNDEFINED" /\ Len(error.name) > 0 THEN error.name
  ELSE IF error.code # "UNDEFINED" /\ Len(error.code) > 0 THEN error.code
  ELSE "UNDEFINED"

getErrorCode(error) ==
  IF error.kind \notin {"Error", "object"} THEN "UNDEFINED"
  ELSE IF error.code # "UNDEFINED" /\ Len(error.code) > 0 THEN error.code
  ELSE IF error.name # "UNDEFINED" /\ Len(error.name) > 0 THEN error.name
  ELSE "UNDEFINED"

\* customRetryRule is "none" (not supplied) or a rule answering always or never
shouldRetry(error, config, customRetryRule) ==
  IF customRetryRule # "none" THEN customRetryRule = "always"
  ELSE LET code == getErrorCode(error)
       IN IF code = "UNDEFINED" THEN FALSE
          ELSE code \in config.retryableErrorCodes

Min(a, b) == IF a <= b THEN a ELSE b

\* variant: the jitter is taken from half of the delay
addJitter_halfOfDelay(baseDelay) ==
  LET jitterRange == baseDelay \div 2
  IN IF jitterRange = 0 THEN {baseDelay}
     ELSE {baseDelay + jitter : jitter \in 0..(jitterRange - 1)}

\* the durations addJitter may give: randomInt(0, jitterRange) excludes its
\* upper end
addJitter(baseDelay) ==
  LET jitterRange == (baseDelay * 2) \div 10
  IN IF jitterRange = 0 THEN {baseDelay}
     ELSE {baseDelay + jitter : jitter \in 0..(jitterRange - 1)}

\* variant: whatever was thrown last, a new error is raised in its place
raiseLastError_alwaysGeneric(lastError) ==
  Thrown("Error", "UNDEFINED", "Error", "Operation failed after retries")

\* the value retryWithBackoff throws at its end; lastError is <<>> when the
\* operation never threw
raiseLastError(lastError) ==
  IF lastError # <<>> /\ lastError[1].kind = "Error" THEN lastError[1]
  ELSE Thrown("Error", "UNDEFINED", "Error", "Operation failed after retries")

\* one run of retryWithBackoff; slept is the duration of the sleep the run
\* has just come out of, 0 once the operation is invoked again
RetryRun(override, rule) ==
  [pc |-> "entry", override |-> override, config |-> mergeErrorHandlingConfig(override),
   customRetryRule |-> rule, attempt |-> 0, delay |-> 0, lastError |-> <<>>,
   invocations |-> 0, sleeps |-> 0, slept |-> 0, last |-> "none", raised |-> <<>>]

\* the loop is left: the run fails with raiseLastError
RetryFailed(run) ==
  [run EXCEPT !.pc = "failed", !.raised = <<raiseLastError(run.lastError)>>]

\* the test of the while loop
RetryLoop(run) ==
  IF run.attempt <= run.config.maxRetries THEN [run EXCEPT !.pc = "invoke"]
  ELSE RetryFailed(run)

\* ------------------------------------------------------------------------
\* State: the table, the lifecycle event being handled, the position of the
\* framework in the lifecycle, and the last invocation
\* ------------------------------------------------------------------------

VARIABLES table, request, phase, lastCall

\* the units examined on their own: the physical id of a response, the
\* backoff executor, the synchronous handler and the planner applied in cycles
VARIABLES idCall, retry, sync, cycle, waiter

units == <<idCall, retry, sync, cycle, waiter>>

vars == <<table, request, phase, lastCall, idCall, retry, sync, cycle, waiter>>

\* an index created outside every declaration
CfgX == GSIConfiguration("GSIX", Attr("XK", "S"), <<>>, "ALL", <<>>, <<>>)

InitialIndexes == {GSIInfo(c, "ACTIVE") : c \in {CfgA, CfgAS, CfgB, CfgX}}

HasUniqueNames(list) ==
  \A i, j \in 1..Len(list) : list[i].indexName = list[j].indexName => i = j

InitialTables ==
  {Table(ix, "ACTIVE") : ix \in {l \in SeqsUpTo(InitialIndexes, MaxInitial) :
                                  HasUniqueNames(l)}}

Events ==
  {Event(k, d, <<>>) : k \in {"Create", "Update", "Delete"},
                       d \in SeqsUpTo(ConfigPool, MaxDesired)}
  \cup {Event("Update", d, <<p>>) : d \in SeqsUpTo(ConfigPool, MaxDesired),
                                    p \in SeqsUpTo(PriorPool, MaxPrior)}

NoIdCall ==
  [pc |-> "none", event |-> IdEvent("None", "UNDEFINED", PropertyBag("UNDEFINED", "UNDEFINED")),
   PhysicalResourceId |-> "UNDEFINED"]

NoRetry == [RetryRun(<<>>, "none") EXCEPT !.pc = "none"]

NoSync ==
  [pc |-> "none", operations |-> <<>>, next |-> 1, results |-> 0, sent |-> <<>>,
   lastWait |-> "none", sentAfter |-> <<>>,
   data |-> <<>>, error |-> "none"]

NoCycle ==
  [pc |-> "none", current |-> <<>>, desired |-> <<>>, cycles |-> 0, limit |-> 0,
   disturbed |-> FALSE]

\* no waiter is running
NoWaiter ==
  [pc |-> "none", wait |-> "none", indexName |-> "UNDEFINED",
   targetStatus |-> "UNDEFINED", probes |-> 0, delay |-> 0, elapsed |-> 0,
   slept |-> <<>>]

\* no unit is under examination
UnitsIdle ==
  /\ idCall = NoIdCall
  /\ retry = NoRetry
  /\ sync = NoSync
  /\ cycle = NoCycle
  /\ waiter = NoWaiter

Init ==
  /\ table \in InitialTables
  /\ request = NoEvent
  /\ phase = "idle"
  /\ lastCall = NoCall
  /\ UnitsIdle

PhaseAfter(call) ==
  CASE call.outcome = "complete" -> "done"
    [] call.outcome = "error" -> "failed"
    [] OTHER -> "polling"

\* the framework invokes onEventHandler with the event
OnEvent(event) ==
  \E r \in onEventHandler(table, event) :
    /\ table' = r.table
    /\ request' = event
    /\ lastCall' = r.call
    /\ phase' = PhaseAfter(r.call)
    /\ UNCHANGED units

\* the first lifecycle event of the resource
Deliver == phase = "idle" /\ \E event \in Events : OnEvent(event)

\* the framework delivers the event again (duplicate or stale event)
Redeliver == phase # "idle" /\ OnEvent(request)

\* the resource is torn down, whatever became of the event before
Teardown ==
  /\ phase # "idle"
  /\ request.RequestType # "Delete"
  /\ OnEvent(Event("Delete", request.desired, <<>>))

\* the framework polls for the completion of the event it delivered last
IsComplete ==
  /\ phase = "polling"
  /\ \E r \in isCompleteHandler(table, request) :
       /\ table' = r.table
       /\ lastCall' = r.call
       /\ phase' = PhaseAfter(r.call)
  /\ UNCHANGED <<request, units>>

\* the store completes the mutation of one index
IndexCompletes ==
  /\ \E n \in InFlightNames(table) :
       table' = Table(CompleteIndexes(table, {n}).indexes, table.tableStatus)
  /\ UNCHANGED <<request, phase, lastCall, units>>

\* the table leaves the UPDATING status
TableBecomesActive ==
  /\ table.tableStatus # "ACTIVE"
  /\ table' = [table EXCEPT !.tableStatus = "ACTIVE"]
  /\ UNCHANGED <<request, phase, lastCall, units>>

Next ==
  Deliver \/ Redeliver \/ Teardown \/ IsComplete \/ IndexCompletes \/ TableBecomesActive

Spec == Init /\ [][Next]_vars

\* one lifecycle: the event is delivered once and then polled
NextLifecycle == Deliver \/ IsComplete \/ IndexCompletes \/ TableBecomesActive

LifecycleSpec == Init /\ [][NextLifecycle]_vars

TypeOK ==
  /\ phase \in {"idle", "polling", "done", "failed"}
  /\ table.tableStatus \in {"ACTIVE", "UPDATING"}
  /\ HasUniqueNames(table.indexes)
  /\ Len(lastCall.issued) <= 1

\* ------------------------------------------------------------------------
\* The physical id on its own: an event arrives and the response to it
\* carries the id ensurePhysicalId gives
\* ------------------------------------------------------------------------

SuppliedIds == {"UNDEFINED", "", "GSIManager-Orders", "res-1"}

TableNames == {"UNDEFINED", "", "Orders", "Users"}

IdEvents ==
  {IdEvent(k, id, PropertyBag(lower, capitalized)) :
     k \in {"Create", "Update", "Delete"}, id \in SuppliedIds,
     lower \in TableNames, capitalized \in TableNames}

InitPhysicalId ==
  /\ table = Table(<<>>, "ACTIVE")
  /\ request = NoEvent
  /\ phase = "idle"
  /\ lastCall = NoCall
  /\ idCall \in {[pc |-> "event", event |-> e, PhysicalResourceId |-> "UNDEFINED"] :
                   e \in IdEvents}
  /\ retry = NoRetry
  /\ sync = NoSync
  /\ cycle = NoCycle
  /\ waiter = NoWaiter

\* the handler answers the event
Respond ==
  /\ idCall.pc = "event"
  /\ idCall' = [idCall EXCEPT !.pc = "response",
                               !.PhysicalResourceId = ensurePhysicalId(idCall.event)]
  /\ UNCHANGED <<table, request, phase, lastCall, retry, sync, cycle, waiter>>

PhysicalIdSpec == InitPhysicalId /\ [][Respond]_vars

\* ------------------------------------------------------------------------
\* The backoff executor on its own: retryWithBackoff runs a wrapped operation
\* that returns or throws
\* ------------------------------------------------------------------------

\* the error codes the documentation lists as retried by default
DocumentedRetryableCodes ==
  {"ThrottlingException", "ProvisionedThroughputExceededException",
   "LimitExceededException", "RequestLimitExceeded", "TooManyRequestsException",
   "InternalServerError", "ServiceUnavailable"}

\* what the wrapped operation may throw
ThrownValues ==
  {Thrown("Error", "UNDEFINED", n, "store error") :
     n \in DocumentedRetryableCodes \cup {"ResourceInUseException", "ValidationException"}}
  \cup {Thrown("Error", "ThrottlingException", "Error", "store error"),
        Thrown("Error", "", "ThrottlingException", "store error"),
        Thrown("Error", "ValidationException", "ThrottlingException", "store error"),
        Thrown("object", "ThrottlingException", "UNDEFINED", "UNDEFINED"),
        Thrown("object", "", "", "UNDEFINED"),
        Thrown("object", "UNDEFINED", "UNDEFINED", "UNDEFINED"),
        Thrown("string", "UNDEFINED", "UNDEFINED", "boom"),
        Thrown("undefined", "UNDEFINED", "UNDEFINED", "UNDEFINED")}

Overrides ==
  {<<>>} \cup
  {<<[maxRetries |-> <<m>>, baseDelayMs |-> <<b>>, maxDelayMs |-> <<15>>,
      retryableErrorCodes |-> c]>> :
     m \in (-1)..MaxRetriesOverride, b \in {4, 10},
     c \in {<<>>, <<{"ValidationException"}>>}}

InitRetry ==
  /\ table = Table(<<>>, "ACTIVE")
  /\ request = NoEvent
  /\ phase = "idle"
  /\ lastCall = NoCall
  /\ idCall = NoIdCall
  /\ retry \in {RetryRun(o, r) : o \in Overrides, r \in {"none", "always", "never"}}
  /\ sync = NoSync
  /\ cycle = NoCycle
  /\ waiter = NoWaiter

\* retryWithBackoff is entered: attempt 0, delay baseDelayMs, the loop test
RetryEnter ==
  /\ retry.pc = "entry"
  /\ retry' = RetryLoop([retry EXCEPT !.attempt = 0,
                                       !.delay = retry.config.baseDelayMs])
  /\ UNCHANGED <<table, request, phase, lastCall, idCall, sync, cycle, waiter>>

\* the wrapped operation is invoked and returns or throws
RetryInvoke ==
  /\ retry.pc = "invoke"
  /\ \/ retry' = [retry EXCEPT !.pc = "returned", !.last = "invoke", !.slept = 0,
                                !.invocations = retry.invocations + 1]
     \/ \E error \in ThrownValues :
          LET run == [retry EXCEPT !.lastError = <<error>>, !.last = "invoke",
                                   !.slept = 0,
                                   !.invocations = retry.invocations + 1]
          IN retry' = IF \/ run.attempt = run.config.maxRetries
                         \/ ~shouldRetry(error, run.config, run.customRetryRule)
                      THEN RetryFailed(run)
                      ELSE [run EXCEPT !.pc = "sleep"]
  /\ UNCHANGED <<table, request, phase, lastCall, idCall, sync, cycle, waiter>>

\* the sleep before the next attempt, and the loop test
RetrySleep ==
  /\ retry.pc = "sleep"
  /\ \E duration \in addJitter(Min(retry.delay, retry.config.maxDelayMs)) :
       retry' = RetryLoop([retry EXCEPT
                             !.slept = duration, !.last = "sleep",
                             !.sleeps = retry.sleeps + 1,
                             !.delay = Min(retry.delay * 2, retry.config.maxDelayMs),
                             !.attempt = retry.attempt + 1])
  /\ UNCHANGED <<table, request, phase, lastCall, idCall, sync, cycle, waiter>>

NextRetry == RetryEnter \/ RetryInvoke \/ RetrySleep

RetrySpec == InitRetry /\ [][NextRetry]_vars

\* ------------------------------------------------------------------------
\* The planner applied in cycles: the plan over the observed indexes is
\* carried out in full by the store and the result is planned again
\* ------------------------------------------------------------------------

CfgI ==
  GSIConfiguration("GSI2", Attr("PK2", "S"), <<>>, "INCLUDE", <<"a", "b">>, <<>>)

CfgI2 ==
  GSIConfiguration("GSI2", Attr("PK2", "S"), <<>>, "INCLUDE", <<"b", "a">>, <<>>)

\* GSI1 with another sort key, and with the attributes of CfgAS in the
\* opposite roles
CfgAS2 ==
  GSIConfiguration("GSI1", Attr("PK1", "S"), <<Attr("SK2", "S")>>, "UNDEFINED",
                   <<>>, <<>>)

CfgSA ==
  GSIConfiguration("GSI1", Attr("SK1", "S"), <<Attr("PK1", "S")>>, "UNDEFINED",
                   <<>>, <<>>)

\* GSI2 with an attribute listed twice: the declared list is not checked for
\* that
CfgI3 ==
  GSIConfiguration("GSI2", Attr("PK2", "S"), <<>>, "INCLUDE", <<"a", "a">>, <<>>)

\* GSI1 with another read capacity, and with another write capacity, than
\* CfgA10
CfgA20 ==
  GSIConfiguration("GSI1", Attr("PK1", "S"), <<>>, "UNDEFINED", <<>>,
                   <<Throughput(20, 10)>>)

CfgA12 ==
  GSIConfiguration("GSI1", Attr("PK1", "S"), <<>>, "UNDEFINED", <<>>,
                   <<Throughput(10, 20)>>)

\* CfgA and CfgAS with a key of another attribute type, CfgB with non-key
\* attributes that its projection type does not use
CfgAN == GSIConfiguration("GSI1", Attr("PK1", "N"), <<>>, "UNDEFINED", <<>>, <<>>)

CfgASN ==
  GSIConfiguration("GSI1", Attr("PK1", "S"), <<Attr("SK1", "N")>>, "UNDEFINED",
                   <<>>, <<>>)

CfgBa == GSIConfiguration("GSI2", Attr("PK2", "S"), <<>>, "ALL", <<"a">>, <<>>)

CycleDesiredPool ==
  {CfgA, CfgA10, CfgA20, CfgA12, CfgAS, CfgAS2, CfgSA, CfgB, CfgI, CfgI2, CfgI3,
   CfgAN, CfgASN, CfgBa}

CycleCurrentPool ==
  {GSIInfo(c, "ACTIVE") : c \in {CfgA, CfgA10, CfgAS, CfgAS2, CfgB, CfgI, CfgX}}

\* the listing once the store has carried the operation out
simulate(current, operation) ==
  CASE operation.type = "DELETE" ->
         LET Others(gsi) == gsi.indexName # operation.indexName
         IN SelectSeq(current, Others)
    [] operation.type = "CREATE" ->
         Append(current, GSIInfo(operation.desiredConfiguration[1], "ACTIVE"))
    [] OTHER ->
         [i \in 1..Len(current) |->
            IF current[i].indexName = operation.indexName
            THEN [current[i] EXCEPT !.provisionedThroughput =
                    operation.desiredConfiguration[1].provisionedThroughput]
            ELSE current[i]]

RECURSIVE simulateAll(_, _, _)
simulateAll(current, operations, n) ==
  IF n = 0 THEN current
  ELSE simulate(simulateAll(current, operations, n - 1), operations[n])

\* the index has the key schema and the projection the configuration declares
SameSchemaAndProjection(gsi, config) ==
  /\ gsi.keySchema = toKeySchema(config)
  /\ gsi.projection.projectionType = toProjection(config).projectionType
  /\ Range(gsi.projection.nonKeyAttributes) = Range(toProjection(config).nonKeyAttributes)

\* the plan deletes or creates an index that has the declared schema and projection
Disturbs(operations, current, desired) ==
  \E i \in 1..Len(operations), j \in 1..Len(current), k \in 1..Len(desired) :
    /\ operations[i].type \in {"DELETE", "CREATE"}
    /\ operations[i].indexName = current[j].indexName
    /\ desired[k].indexName = current[j].indexName
    /\ SameSchemaAndProjection(current[j], desired[k])

InitCycle ==
  /\ table = Table(<<>>, "ACTIVE")
  /\ request = NoEvent
  /\ phase = "idle"
  /\ lastCall = NoCall
  /\ idCall = NoIdCall
  /\ retry = NoRetry
  /\ sync = NoSync
  /\ waiter = NoWaiter
  /\ \E current \in SeqsUpTo(CycleCurrentPool, MaxInitial),
        desired \in SeqsUpTo(CycleDesiredPool, MaxDesired) :
       /\ HasUniqueNames(current)
       /\ validateGsiConfigurations(desired) = <<>>
       /\ cycle = [pc |-> "plan", current |-> current, desired |-> desired,
                   cycles |-> 0,
                   limit |-> Len(desired) +
                             Cardinality({i \in 1..Len(current) :
                                            current[i].indexName \notin
                                              Range(IndexNames(desired))}),
                   disturbed |-> FALSE]

\* one plan cycle: the plan is not empty and the store carries it out
PlanCycle ==
  /\ cycle.pc = "plan"
  /\ LET operations == planGsiOperations(cycle.current, cycle.desired)
     IN /\ operations # <<>>
        /\ cycle' = [cycle EXCEPT
                       !.current = simulateAll(cycle.current, operations, Len(operations)),
                       !.cycles = cycle.cycles + 1,
                       !.disturbed = cycle.disturbed \/
                                     Disturbs(operations, cycle.current, cycle.desired)]
  /\ UNCHANGED <<table, request, phase, lastCall, idCall, retry, sync, waiter>>

CycleSpec == InitCycle /\ [][PlanCycle]_vars

\* ------------------------------------------------------------------------
\* The synchronous handler (handler.ts): handler plans once and
\* executeOperations carries the operations out one after the other, waiting
\* for the table and for the index after every mutation
\* ------------------------------------------------------------------------

\* the operations the synchronous handler executes for the event
syncOperations(t, event) ==
  LET current == getCurrentGSIs(t)
  IN IF event.RequestType = "Delete"
     THEN LET targets == resolveCurrentForPlanning(
                           event.RequestType, current,
                           collectManagedNames(event.desired, <<>>)).candidates
          IN [i \in 1..Len(targets) |->
                GSIOperation("DELETE", targets[i].indexName, <<>>, <<targets[i]>>)]
     ELSE planGsiOperations(
            resolveCurrentForPlanning(
              event.RequestType, current,
              collectManagedNames(event.desired, oldProps(event))).candidates,
            event.desired)

InitSync ==
  /\ table \in InitialTables
  /\ request = NoEvent
  /\ phase = "idle"
  /\ lastCall = NoCall
  /\ idCall = NoIdCall
  /\ retry = NoRetry
  /\ sync = [NoSync EXCEPT !.pc = "idle"]
  /\ cycle = NoCycle
  /\ waiter = NoWaiter

\* handler is invoked: validation, the listing, the plan; without operations
\* it answers at once, else executeOperations begins with a wait for the table
SyncDeliver ==
  /\ sync.pc = "idle"
  /\ \E event \in Events :
       LET operations == syncOperations(table, event)
       IN /\ request' = event
          /\ sync' =
               IF event.RequestType # "Delete"
                  /\ validateGsiConfigurations(event.desired) # <<>>
               THEN [sync EXCEPT !.pc = "failed", !.error = "validation"]
               ELSE IF Len(operations) = 0
               THEN [sync EXCEPT !.pc = "done",
                                 !.data = ResponseData(0, event.desired)]
               ELSE [sync EXCEPT !.pc = "stabilise", !.operations = operations]
  /\ UNCHANGED <<table, phase, lastCall, idCall, retry, cycle, waiter>>

\* await service.waitForTableActive: before the loop and after every mutation
SyncWaitTable ==
  /\ sync.pc \in {"stabilise", "waitTable"}
  /\ \E w \in waitForTableActive(table) :
       /\ table' = w.table
       /\ sync' = IF ~w.ok THEN [sync EXCEPT !.pc = "failed", !.error = "timeout"]
                  ELSE IF sync.pc = "stabilise"
                  THEN [sync EXCEPT !.pc = "send",
                                    !.lastWait = "waitForTableActive"]
                  ELSE [sync EXCEPT !.pc = "waitIndex",
                                    !.lastWait = "waitForTableActive"]
  /\ UNCHANGED <<request, phase, lastCall, idCall, retry, cycle, waiter>>

\* the mutation of the next operation is sent
SyncSend ==
  /\ sync.pc = "send"
  /\ \E r \in sendOperation(table, sync.operations[sync.next]) :
       /\ table' = r.table
       /\ sync' = IF r.error # "none"
                  THEN [sync EXCEPT !.pc = "failed", !.error = r.error,
                                    !.sent = sync.sent \o r.issued,
                                    !.sentAfter = Append(sync.sentAfter, sync.lastWait)]
                  ELSE [sync EXCEPT !.pc = "waitTable",
                                    !.sent = sync.sent \o r.issued,
                                    !.sentAfter = Append(sync.sentAfter, sync.lastWait)]
  /\ UNCHANGED <<request, phase, lastCall, idCall, retry, cycle, waiter>>

\* await service.waitForGSIStatus, the result is pushed, the loop goes on or
\* handler answers
SyncWaitIndex ==
  /\ sync.pc = "waitIndex"
  /\ LET operation == sync.operations[sync.next]
         target == IF operation.type = "DELETE" THEN "DELETED" ELSE "ACTIVE"
     IN \E w \in waitForGSIStatus(table, operation.indexName, target) :
          /\ table' = w.table
          /\ sync' =
               IF ~w.ok THEN [sync EXCEPT !.pc = "failed", !.error = "timeout"]
               ELSE IF sync.next = Len(sync.operations)
               THEN [sync EXCEPT !.pc = "done", !.results = sync.results + 1,
                                 !.next = sync.next + 1,
                                 !.lastWait = "waitForGSIStatus",
                                 !.data = ResponseData(sync.results + 1, request.desired)]
               ELSE [sync EXCEPT !.pc = "send", !.results = sync.results + 1,
                                 !.next = sync.next + 1,
                                 !.lastWait = "waitForGSIStatus"]
  /\ UNCHANGED <<request, phase, lastCall, idCall, retry, cycle, waiter>>

NextSync ==
  SyncDeliver \/ SyncWaitTable \/ SyncSend \/ SyncWaitIndex
  \/ IndexCompletes \/ TableBecomesActive

SyncSpec == InitSync /\ [][NextSync]_vars

\* ------------------------------------------------------------------------
\* Declared lists that validateGsiConfigurations has to refuse: onEventHandler
\* is given Create and Update events whose entries lack a name, a key name, a
\* valid key type or a valid projection type, beside entries that are in order
\* ------------------------------------------------------------------------

CfgNoName == GSIConfiguration(" ", Attr("PK1", "S"), <<>>, "ALL", <<>>, <<>>)

CfgNoKeyName == GSIConfiguration("GSI1", Attr("", "S"), <<>>, "ALL", <<>>, <<>>)

CfgBadKeyType == GSIConfiguration("GSI1", Attr("PK1", "X"), <<>>, "ALL", <<>>, <<>>)

CfgBadSortKey ==
  GSIConfiguration("GSI2", Attr("PK2", "N"), <<Attr(" ", "Z")>>, "KEYS_ONLY", <<>>, <<>>)

CfgBadProjection ==
  GSIConfiguration("GSI2", Attr("PK2", "B"), <<>>, "SOME", <<>>, <<>>)

ValidationPool ==
  {CfgA10, CfgAS, CfgB, CfgNoName, CfgNoKeyName, CfgBadKeyType, CfgBadSortKey,
   CfgBadProjection}

ValidationEvents ==
  {Event(k, d, <<>>) : k \in {"Create", "Update"},
                       d \in SeqsUpTo(ValidationPool, MaxDesired)}

DeliverDeclared == phase = "idle" /\ \E event \in ValidationEvents : OnEvent(event)

NextValidation ==
  DeliverDeclared \/ IsComplete \/ IndexCompletes \/ TableBecomesActive

ValidationSpec == Init /\ [][NextValidation]_vars

\* ------------------------------------------------------------------------
\* The blocking waiters (dynamodb-gsi-service.ts), probe by probe.  Time is
\* counted in milliseconds from the start of the wait; a sleep of d
\* milliseconds moves it on by d, the least the clock can move.
\* ------------------------------------------------------------------------

DEFAULT_WAITER_CONFIG ==
  [initialDelayMs |-> 3000, maxDelayMs |-> 20000, timeoutMs |-> 900000]

\* the test of one round of the loop on what the describe call returned
targetReached(t, w) ==
  IF w.wait = "waitForTableActive" THEN t.tableStatus = "ACTIVE"
  ELSE LET match == FindByName(getCurrentGSIs(t), w.indexName)
       IN IF w.targetStatus = "DELETED" THEN match = <<>>
          ELSE match # <<>> /\ match[1].indexStatus = w.targetStatus

\* variant: the delay is not doubled
nextWaiterDelay_constant(delay) == Min(delay, DEFAULT_WAITER_CONFIG.maxDelayMs)

\* delay = Math.min(delay * 2, this.waiter.maxDelayMs)
nextWaiterDelay(delay) == Min(delay * 2, DEFAULT_WAITER_CONFIG.maxDelayMs)

\* tables with a mutation under way, beside the quiet ones
WaiterTables ==
  InitialTables
  \cup UNION {{Accepted(t, Mutation("DELETE", n, <<>>)) :
                 n \in Range(IndexNames(t.indexes))} : t \in InitialTables}
  \cup {Accepted(t, Mutation("CREATE", "GSI2", <<CfgB>>)) :
          t \in {u \in InitialTables : FindByName(u.indexes, "GSI2") = <<>>}}

Waits ==
  {[NoWaiter EXCEPT !.pc = "probe", !.wait = "waitForTableActive",
                    !.delay = DEFAULT_WAITER_CONFIG.initialDelayMs]}
  \cup {[NoWaiter EXCEPT !.pc = "probe", !.wait = "waitForGSIStatus",
                         !.indexName = n, !.targetStatus = target,
                         !.delay = DEFAULT_WAITER_CONFIG.initialDelayMs] :
          n \in {"GSI1", "GSI2"}, target \in {"ACTIVE", "DELETED"}}

InitWaiter ==
  /\ table \in WaiterTables
  /\ request = NoEvent
  /\ phase = "idle"
  /\ lastCall = NoCall
  /\ idCall = NoIdCall
  /\ retry = NoRetry
  /\ sync = NoSync
  /\ cycle = NoCycle
  /\ waiter \in Waits

\* one describe call and the tests that follow it: return, give up, or sleep
WaiterProbe ==
  /\ waiter.pc = "probe"
  /\ waiter' =
       [waiter EXCEPT
          !.probes = waiter.probes + 1,
          !.pc = IF targetReached(table, waiter) THEN "returned"
                 ELSE IF waiter.elapsed > DEFAULT_WAITER_CONFIG.timeoutMs
                 THEN "timedOut"
                 ELSE "sleep"]
  /\ UNCHANGED <<table, request, phase, lastCall, idCall, retry, sync, cycle>>

\* await sleep(Math.min(delay, maxDelayMs)); the delay is doubled
WaiterSleep ==
  /\ waiter.pc = "sleep"
  /\ LET duration == Min(waiter.delay, DEFAULT_WAITER_CONFIG.maxDelayMs)
     IN waiter' = [waiter EXCEPT !.pc = "probe",
                                 !.slept = <<duration>>,
                                 !.elapsed = waiter.elapsed + duration,
                                 !.delay = nextWaiterDelay(waiter.delay)]
  /\ UNCHANGED <<table, request, phase, lastCall, idCall, retry, sync, cycle>>

NextWaiter == WaiterProbe \/ WaiterSleep \/ IndexCompletes \/ TableBecomesActive

WaiterSpec == InitWaiter /\ [][NextWaiter]_vars

\* the waiter is a single thread of control that is not held up for ever:
\* its describe calls return and its timers fire
WaiterLiveSpec ==
  WaiterSpec /\ WF_vars(WaiterProbe) /\ WF_vars(WaiterSleep)

\* ------------------------------------------------------------------------
\* The three entry points side by side: one table is managed either through
\* onEventHandler and isCompleteHandler or through the synchronous handler,
\* whichever is invoked first
\* ------------------------------------------------------------------------

NextHandlers ==
  \/ sync.pc = "idle" /\ Next
  \/ phase = "idle" /\ NextSync

HandlersSpec == InitSync /\ [][NextHandlers]_vars

\* ------------------------------------------------------------------------
\* Properties
\* ------------------------------------------------------------------------

Invoked == lastCall.entry \in {"start", "poll"}

DeclaredNames == Range(IndexNames(request.desired))

PriorNames ==
  IF request.RequestType = "Update" /\ request.prior # <<>>
  THEN Range(IndexNames(request.prior[1])) ELSE {}

\* a candidate of the listing the invocation read is mid-mutation
InFlightObserved ==
  \E i \in 1..Len(lastCall.candidates) :
    lastCall.candidates[i].indexStatus \in InFlightStatuses

\* the declared list fails validation: two entries share an index name
DuplicateDeclared == ~HasUniqueNames(request.desired)

\* C1: a poll invocation that observed a resolved candidate in status
\* CREATING, UPDATING or DELETING sends no mutation to the store.
C1_PollSingleInFlight ==
  (lastCall.entry = "poll" /\ InFlightObserved) => lastCall.issued = <<>>

\* C2: a start invocation that observed a resolved candidate mid-mutation
\* sends no mutation, and at no instant are two managed indexes mid-mutation.
C2_StartSingleInFlight ==
  /\ (lastCall.entry = "start" /\ InFlightObserved) => lastCall.issued = <<>>
  /\ Cardinality(InFlightNames(table) \cap (DeclaredNames \cup PriorNames)) <= 1

\* the plan over the candidates resolved from the table as it is now
PlanOnTable ==
  planGsiOperations(
    resolveCurrentForPlanning(request.RequestType, table.indexes,
                              DeclaredNames \cup PriorNames).candidates,
    request.desired)

\* C3: in one lifecycle of a Create or Update event with a valid declared
\* list, when the polling has returned complete the table matches the
\* declared list: the plan recomputed from the table is empty.
C3_CompleteMeansConverged ==
  (request.RequestType \in {"Create", "Update"} /\ ~DuplicateDeclared
     /\ phase = "done")
  => PlanOnTable = <<>>

\* C4: a Create/Update poll returns complete only when no candidate is
\* mid-mutation and the plan over the observed candidates is empty; with a
\* non-empty plan it returns not complete.
C4_PollCompleteOnlyOnEmptyPlan ==
  (lastCall.entry = "poll" /\ lastCall.kind \in {"Create", "Update"})
  => /\ lastCall.outcome = "complete"
          => /\ ~InFlightObserved
             /\ planGsiOperations(lastCall.candidates, request.desired) = <<>>
     /\ (lastCall.planned /\ lastCall.plan # <<>>) => lastCall.outcome # "complete"

C7_CreateTouchesDeclaredOnly ==
  (Invoked /\ lastCall.kind = "Create" /\ request.desired # <<>>)
  => /\ LET Declared(gsi) == gsi.indexName \in DeclaredNames
        IN lastCall.candidates = SelectSeq(lastCall.observed, Declared)
     /\ ~lastCall.adopted
     /\ \A i \in 1..Len(lastCall.issued) :
          lastCall.issued[i].indexName \in DeclaredNames

C7_Witness ==
  /\ lastCall.entry = "poll" /\ lastCall.kind = "Create"
  /\ lastCall.issued # <<>>
  /\ \E i \in 1..Len(lastCall.observed) :
       lastCall.observed[i].indexName \notin DeclaredNames

\* C8: in a Create event with an empty declared list the candidates are
\* empty and no mutation is sent, whatever the table holds.
C8_EmptyCreateTouchesNothing ==
  (Invoked /\ lastCall.kind = "Create" /\ request.desired = <<>>)
  => lastCall.candidates = <<>> /\ lastCall.issued = <<>>

\* C9: in a Create or Update event no index is deleted whose name is in
\* neither the declared list nor the prior declared list.
C9_NeverDeletesUnmanaged ==
  (Invoked /\ lastCall.kind \in {"Create", "Update"})
  => \A i \in 1..Len(lastCall.issued) :
       lastCall.issued[i].type = "DELETE"
       => lastCall.issued[i].indexName \in DeclaredNames \cup PriorNames

\* the names the prior list declares, the new list omits and the table holds
DroppedOnTable ==
  (PriorNames \ DeclaredNames) \cap Range(IndexNames(lastCall.observed))

\* C10: in an Update event, an index of the prior list that the new list
\* omits and the table holds is managed, is a candidate, and the plan of
\* start and of poll holds its DELETE.
C10_DroppedIndexIsDeleted ==
  (Invoked /\ lastCall.kind = "Update" /\ lastCall.planned)
  => \A n \in DroppedOnTable :
       /\ n \in lastCall.managedNames
       /\ n \in Range(IndexNames(lastCall.candidates))
       /\ \E i \in 1..Len(lastCall.plan) :
            lastCall.plan[i].type = "DELETE" /\ lastCall.plan[i].indexName = n

C10_Witness ==
  /\ lastCall.entry = "poll" /\ lastCall.kind = "Update" /\ lastCall.planned
  /\ DroppedOnTable # {}
  /\ request.desired # <<>>

\* the table the invocation read matches the declared list: no candidate is
\* mid-mutation and the plan over the candidates is empty
MatchesDeclared ==
  /\ ~InFlightObserved
  /\ planGsiOperations(lastCall.candidates, request.desired) = <<>>

\* C11: a start or poll invocation of a Create or Update event that reads
\* the table and finds it matching the declared list (no candidate
\* mid-mutation, empty plan) sends no mutation and returns complete.
C11_IdempotentOnceConverged ==
  (Invoked /\ lastCall.kind \in {"Create", "Update"}
     /\ lastCall.error # "validation"
     /\ LET resolved == resolveCurrentForPlanning(lastCall.kind, lastCall.observed,
                                                  DeclaredNames \cup PriorNames)
        IN /\ \A i \in 1..Len(resolved.candidates) :
                resolved.candidates[i].indexStatus \notin InFlightStatuses
           /\ planGsiOperations(resolved.candidates, request.desired) = <<>>)
  => /\ lastCall.issued = <<>>
     /\ lastCall.outcome = "complete"

C11_Witness ==
  /\ lastCall.entry = "poll" /\ lastCall.kind = "Update"
  /\ request.desired # <<>> /\ lastCall.observed # <<>>
  /\ MatchesDeclared /\ lastCall.outcome = "complete"

\* C12: a start invocation that returns answers complete exactly when its
\* operation list is empty, and then sends nothing and leaves the table as it
\* is; otherwise it sends the mutation of the first operation and no other,
\* answers not complete, and on return the index is still mid-mutation.
C12_StartIssuesFirstOnly ==
  [][(lastCall' # lastCall /\ lastCall'.entry = "start" /\ lastCall'.planned
        /\ lastCall'.outcome # "error")
     => /\ (lastCall'.outcome = "complete") <=> (lastCall'.plan = <<>>)
        /\ lastCall'.outcome = "complete"
             => lastCall'.issued = <<>> /\ table' = table
        /\ lastCall'.outcome = "incomplete"
             => /\ lastCall'.issued =
                     <<[type |-> lastCall'.plan[1].type,
                        indexName |-> lastCall'.plan[1].indexName]>>
                /\ lastCall'.plan[1].indexName \in InFlightNames(table')]_vars

C12_Witness ==
  /\ lastCall.entry = "start" /\ lastCall.outcome = "incomplete"
  /\ Len(lastCall.plan) > 1 /\ lastCall.issued # <<>>

\* C13: a response that is not complete carries no data, and a complete
\* response carries the data.
C13_DataOnlyWhenComplete ==
  Invoked => ((lastCall.data # <<>>) <=> (lastCall.outcome = "complete"))

C13_Witness ==
  /\ lastCall.entry = "poll" /\ lastCall.outcome = "incomplete"
  /\ lastCall.issued = <<>> /\ lastCall.data = <<>>
  /\ request.desired # <<>>

\* the declared index names separated by commas, in declared order
RECURSIVE CommaSeparated(_)
CommaSeparated(names) ==
  IF names = <<>> THEN ""
  ELSE IF Len(names) = 1 THEN Head(names)
  ELSE Head(names) \o "," \o CommaSeparated(Tail(names))

\* C14: every complete response reports the size of the declared list as
\* operationsExecuted and the comma-joined declared names as managedIndexes.
C14_DataDescribesDeclared ==
  (Invoked /\ lastCall.outcome = "complete")
  => /\ lastCall.data[1].operationsExecuted = Len(request.desired)
     /\ lastCall.data[1].managedIndexes = CommaSeparated(IndexNames(request.desired))

\* C14 (amended): a complete response of poll reports the size of the
\* declared list as operationsExecuted, a complete response of start reports
\* 0, and both report the comma-joined declared names as managedIndexes.
C14_DataOfPollAndStart ==
  (Invoked /\ lastCall.outcome = "complete")
  => /\ lastCall.data[1].operationsExecuted =
          (IF lastCall.entry = "poll" THEN Len(request.desired) ELSE 0)
     /\ lastCall.data[1].managedIndexes = CommaSeparated(IndexNames(request.desired))

C14_Witness ==
  /\ lastCall.entry = "poll" /\ lastCall.outcome = "complete"
  /\ Len(request.desired) > 1

\* C15: the physical id of a response is the supplied id verbatim when a
\* non-empty one is supplied; otherwise it is "GSIManager-" followed by the
\* declared table name, whichever of tableName and TableName declares it.
C15_PhysicalIdFromEitherVariant ==
  idCall.pc = "response"
  => LET event == idCall.event
         supplied == event.PhysicalResourceId
         declared == parseManagerProps(event.ResourceProperties).tableName
     IN IF supplied # "UNDEFINED" /\ supplied # ""
        THEN idCall.PhysicalResourceId = supplied
        ELSE pickVariant(event.ResourceProperties, "tableName") # "UNDEFINED"
             => idCall.PhysicalResourceId = "GSIManager-" \o declared

\* C18: under the default configuration and without a custom rule, a failure
\* whose code the documentation lists as retryable is retried: the run fails
\* on it only when the retries are exhausted.
C18_DefaultCodesRetried ==
  (retry.pc = "failed" /\ retry.override = <<>> /\ retry.customRetryRule = "none"
     /\ retry.lastError # <<>>
     /\ getErrorCode(retry.lastError[1]) \in DocumentedRetryableCodes)
  => retry.attempt = retry.config.maxRetries

\* C19: a failed run raises the value the last invocation of the wrapped
\* operation threw, whatever kind of value it is.
C19_RaisesLastValue ==
  retry.pc = "failed" => retry.lastError # <<>> /\ retry.raised = retry.lastError

\* C19 (amended): a failed run raises the value the last invocation threw
\* when that value is an Error instance; when the value is not an Error
\* instance, or the operation was never invoked, it raises a new Error
\* "Operation failed after retries".
C19_RaisesLastErrorOrGeneric ==
  retry.pc = "failed"
  => IF retry.lastError # <<>> /\ retry.lastError[1].kind = "Error"
     THEN retry.raised = retry.lastError
     ELSE retry.raised =
            <<Thrown("Error", "UNDEFINED", "Error", "Operation failed after retries")>>

C19_Witness ==
  /\ retry.pc = "failed" /\ retry.invocations > 1
  /\ retry.lastError # <<>> /\ retry.lastError[1].kind = "Error"
  /\ retry.raised = retry.lastError

\* C20: for every configuration a finished run has invoked the wrapped
\* operation at least once and at most maxRetries + 1 times, and every sleep
\* was followed by an attempt: nothing is slept after the failure that ends
\* the run.
C20_AttemptsBounded ==
  /\ retry.pc \in {"returned", "failed"}
       => /\ retry.invocations >= 1
          /\ retry.invocations <= retry.config.maxRetries + 1
          /\ retry.last = "invoke"
          /\ retry.sleeps = retry.invocations - 1
  /\ retry.pc # "none" => retry.attempt <= retry.config.maxRetries + 1

InTargetStatus(operation) ==
  LET match == FindByName(table.indexes, operation.indexName)
  IN IF operation.type = "DELETE" THEN match = <<>>
     ELSE match # <<>> /\ match[1].indexStatus = "ACTIVE"

\* C16: the synchronous handler sends the mutations in plan order; when it
\* is about to send the mutation of an operation, the index of the operation
\* before it is in its target status (absent for DELETE, ACTIVE for CREATE and
\* UPDATE), the table is ACTIVE and no index is mid-mutation; when it answers
\* with success, operationsExecuted is the number of planned operations.
C16_SyncOneAfterTheOther ==
  /\ \A i \in 1..Len(sync.sent) :
       sync.sent[i] = [type |-> sync.operations[i].type,
                       indexName |-> sync.operations[i].indexName]
  /\ (sync.pc = "send" /\ sync.next > 1)
       => /\ InTargetStatus(sync.operations[sync.next - 1])
          /\ table.tableStatus = "ACTIVE"
          /\ Len(sync.sent) = sync.next - 1
  /\ sync.pc = "done"
       => /\ Len(sync.sent) = Len(sync.operations)
          /\ sync.data[1].operationsExecuted = Len(sync.operations)

C16_Witness ==
  /\ sync.pc = "done" /\ Len(sync.operations) > 1
  /\ sync.operations[1].type = "DELETE" /\ sync.operations[2].type = "CREATE"

\* C21: a Create or Update poll that finds no resolved candidate mid-mutation
\* and plans an UPDATE first sends that updateIndex and answers "not
\* complete"; the UPDATE at the head of the plan is never skipped (a call that
\* fails leaves the request in error instead).
C21_UpdateAtHeadIsIssued ==
  (/\ lastCall.entry = "poll"
   /\ lastCall.kind \in {"Create", "Update"}
   /\ ~InFlightObserved
   /\ lastCall.planned /\ lastCall.plan # <<>>
   /\ lastCall.plan[1].type = "UPDATE")
  => /\ lastCall.outcome # "complete"
     /\ lastCall.error = "none" =>
          /\ Len(lastCall.issued) = 1
          /\ lastCall.issued[1].type = "UPDATE"
          /\ lastCall.issued[1].indexName = lastCall.plan[1].indexName

RemainingCandidates ==
  resolveCurrentForPlanning("Delete", getCurrentGSIs(table),
                            lastCall.managedNames).candidates

\* C23: a Delete poll answers "complete" only when no resolved candidate
\* remains on the table; otherwise it deals with the first candidate only,
\* sends its deleteIndex only when the listing did not show that candidate as
\* DELETING and the table was just seen ACTIVE, and answers "not complete".
C23_DeleteBranchOneCandidateAtATime ==
  (lastCall.entry = "poll" /\ lastCall.kind = "Delete")
  => /\ lastCall.outcome = "complete"
        => RemainingCandidates = <<>> /\ lastCall.issued = <<>>
     /\ lastCall.issued # <<>>
        => /\ lastCall.issued =
                <<[type |-> "DELETE",
                   indexName |-> lastCall.candidates[1].indexName]>>
           /\ lastCall.candidates[1].indexStatus # "DELETING"
           /\ lastCall.precededBy = "isTableActive"
           /\ lastCall.outcome # "complete"

\* a Delete poll with two candidates sent the deleteIndex of the first
C23_Witness ==
  /\ lastCall.entry = "poll" /\ lastCall.kind = "Delete"
  /\ Len(lastCall.candidates) = 2
  /\ Len(lastCall.issued) = 1
  /\ lastCall.outcome = "incomplete"

\* C24 (as stated): every mutation sent by start, by poll or by the
\* synchronous handler comes straight after an observation, in the same call,
\* that the table is ACTIVE: nothing else is awaited or sent in between.
C24_MutationRightAfterTableSeenActive ==
  /\ (Invoked /\ lastCall.issued # <<>>)
     => lastCall.precededBy \in {"waitForTableActive", "isTableActive"}
  /\ \A i \in 1..Len(sync.sentAfter) : sync.sentAfter[i] = "waitForTableActive"

\* C24 (amended): a mutation sent by start or poll comes straight after an
\* observation that the table is ACTIVE (the wait of startOperation, the
\* describe of the Delete branch of poll), and so does the first mutation of
\* the synchronous handler; every later mutation of the synchronous handler
\* comes straight after the wait for the index of the operation before it,
\* which itself follows the wait for the table.
C24_MutationAfterTableSeenActive ==
  /\ (Invoked /\ lastCall.issued # <<>>)
     => lastCall.precededBy \in {"waitForTableActive", "isTableActive"}
  /\ \A i \in 1..Len(sync.sentAfter) :
       sync.sentAfter[i] = IF i = 1 THEN "waitForTableActive"
                           ELSE "waitForGSIStatus"

\* the synchronous handler has sent its second mutation
C24_Witness ==
  /\ Len(sync.sentAfter) = 2
  /\ Len(sync.sent) = 2

\* C25 (as stated): no start or poll invocation enters a blocking wait; it
\* looks at the store with single describes only.
C25_NoBlockingWait ==
  Invoked => lastCall.precededBy # "waitForTableActive"

\* C25 (amended): start and poll never wait for an index: when the mutation
\* they sent was accepted they return while that index is mid-mutation.  They
\* do enter the blocking wait for the table, at the top of startOperation,
\* whenever they send the first operation of a plan: every start with a plan
\* that is not empty, and every Create or Update poll that sends.  Only the
\* Delete branch of poll sends after a single describe of the table.
C25_BlocksOnTableOnly ==
  [][(lastCall' # lastCall /\ lastCall'.entry \in {"start", "poll"})
     => /\ lastCall'.precededBy = "waitForTableActive"
             => /\ lastCall'.planned /\ lastCall'.plan # <<>>
                /\ lastCall'.entry = "start"
                   \/ lastCall'.kind \in {"Create", "Update"}
        /\ (lastCall'.entry = "start" /\ lastCall'.planned
              /\ lastCall'.plan # <<>>)
             => lastCall'.precededBy = "waitForTableActive"
        /\ (lastCall'.entry = "poll" /\ lastCall'.issued # <<>>)
             => lastCall'.precededBy =
                  IF lastCall'.kind = "Delete" THEN "isTableActive"
                  ELSE "waitForTableActive"
        /\ (lastCall'.issued # <<>> /\ lastCall'.error = "none")
             => lastCall'.issued[1].indexName \in InFlightNames(table')]_vars

\* a poll waited for the table until the waiter gave up
C25_Witness ==
  /\ lastCall.entry = "poll"
  /\ lastCall.precededBy = "waitForTableActive"
  /\ lastCall.error = "timeout"

\* C26: no entry point sends createIndex for a name that its latest look at
\* the table showed present: start and poll send it only for a name absent
\* from the listing they read, and the synchronous handler, which recreates
\* within one call, sends it only once the index is gone from the table.
C26_CreateOnlyWhenAbsent ==
  /\ Invoked
     => \A i \in 1..Len(lastCall.issued) :
          lastCall.issued[i].type = "CREATE"
          => lastCall.issued[i].indexName \notin Range(IndexNames(lastCall.observed))
  /\ (sync.pc = "send" /\ sync.operations[sync.next].type = "CREATE")
     => FindByName(getCurrentGSIs(table), sync.operations[sync.next].indexName) = <<>>

\* the synchronous handler recreated an index: its deleteIndex, then, the
\* index being gone, its createIndex
C26_Witness ==
  /\ Len(sync.sent) = 2
  /\ sync.sent[1].type = "DELETE" /\ sync.sent[2].type = "CREATE"
  /\ sync.sent[1].indexName = sync.sent[2].indexName
  /\ sync.error = "none"

\* positions of the listing an invocation read whose name is not managed
UntrackedObserved ==
  {i \in 1..Len(lastCall.observed) :
     lastCall.observed[i].indexName \notin lastCall.managedNames}

CyclePlan == planGsiOperations(cycle.current, cycle.desired)

\* the operation types the plan holds for one index name, in plan order
PlannedTypes(name) ==
  LET ForName(op) == op.indexName = name
      ops == SelectSeq(CyclePlan, ForName)
  IN [i \in 1..Len(ops) |-> ops[i].type]

\* C28: for a listing and a declared list with unique names the planner
\* emits a DELETE for exactly the listed names that are not declared, and for
\* a declared entry: CREATE when the name is not listed; DELETE then CREATE,
\* never UPDATE, when the key schema or the projection changed; one UPDATE
\* when only the throughput changed; nothing otherwise.
C28_PlannerEmission ==
  cycle.pc = "plan"
  => /\ \A i \in 1..Len(cycle.current) :
          cycle.current[i].indexName \notin Range(IndexNames(cycle.desired))
          => PlannedTypes(cycle.current[i].indexName) = <<"DELETE">>
     /\ \A k \in 1..Len(cycle.desired) :
          LET d == cycle.desired[k]
              listed == FindByName(cycle.current, d.indexName)
          IN PlannedTypes(d.indexName) =
               IF listed = <<>> THEN <<"CREATE">>
               ELSE IF keySchemaChanged(listed[1], d) \/ projectionChanged(listed[1], d)
               THEN <<"DELETE", "CREATE">>
               ELSE IF shouldUpdateThroughput(listed[1], d) THEN <<"UPDATE">>
               ELSE <<>>
     /\ \A p \in 1..Len(CyclePlan) :
          /\ CyclePlan[p].indexName \in
               Range(IndexNames(cycle.current)) \cup Range(IndexNames(cycle.desired))
          /\ CyclePlan[p].type \in {"CREATE", "UPDATE"}
             => \E k \in 1..Len(cycle.desired) :
                  CyclePlan[p].desiredConfiguration = <<cycle.desired[k]>>

\* one plan holds a recreate and an UPDATE: a listed index whose projection
\* changed and another whose throughput alone changed
C28_Witness ==
  /\ cycle.pc = "plan"
  /\ \E k \in 1..Len(cycle.desired) :
       PlannedTypes(cycle.desired[k].indexName) = <<"DELETE", "CREATE">>
  /\ \E k \in 1..Len(cycle.desired) :
       PlannedTypes(cycle.desired[k].indexName) = <<"UPDATE">>

\* where an operation belongs: a removal at the place of its index in the
\* listing, a decision for a declared entry behind all removals at the place
\* of the entry in the declared list
PlanRank(op) ==
  IF op.indexName \notin Range(IndexNames(cycle.desired))
  THEN CHOOSE i \in 1..Len(cycle.current) :
         cycle.current[i].indexName = op.indexName
  ELSE Len(cycle.current) +
       CHOOSE k \in 1..Len(cycle.desired) :
         cycle.desired[k].indexName = op.indexName

KeyAttributes(gsi, keyType) ==
  {gsi.keySchema[i].attributeName :
     i \in {j \in 1..Len(gsi.keySchema) : gsi.keySchema[j].keyType = keyType}}

\* C30: keySchemaChanged is true exactly when the declared partition key is
\* not the HASH element of the index, or no sort key is declared while the
\* index has a RANGE element, or a sort key is declared while the index has
\* no RANGE element or one of another attribute name.
C30_KeySchemaChangedExactly ==
  cycle.pc = "plan"
  => \A i \in 1..Len(cycle.current), k \in 1..Len(cycle.desired) :
       LET gsi == cycle.current[i]
           d == cycle.desired[k]
       IN keySchemaChanged(gsi, d) <=>
            \/ d.partitionKey.name \notin KeyAttributes(gsi, "HASH")
            \/ d.sortKey = <<>> /\ KeyAttributes(gsi, "RANGE") # {}
            \/ /\ d.sortKey # <<>>
               /\ KeyAttributes(gsi, "RANGE") # {d.sortKey[1].name}

\* an index and a declared entry with the same partition key and sort keys of
\* different names
C30_Witness ==
  /\ cycle.pc = "plan"
  /\ \E i \in 1..Len(cycle.current), k \in 1..Len(cycle.desired) :
       LET gsi == cycle.current[i]
           d == cycle.desired[k]
       IN /\ d.partitionKey.name \in KeyAttributes(gsi, "HASH")
          /\ d.sortKey # <<>>
          /\ KeyAttributes(gsi, "RANGE") # {}
          /\ d.sortKey[1].name \notin KeyAttributes(gsi, "RANGE")
          /\ keySchemaChanged(gsi, d)

\* C31: projectionChanged is true exactly when the projection types differ,
\* the declared one being ALL when none is declared, or, the declared type
\* being INCLUDE, the declared and the listed non-key attributes differ as
\* sets; the order of the attributes plays no part.
C31_ProjectionChangedExactly ==
  cycle.pc = "plan"
  => \A i \in 1..Len(cycle.current), k \in 1..Len(cycle.desired) :
       LET gsi == cycle.current[i]
           d == cycle.desired[k]
           declaredType == IF d.projectionType = "UNDEFINED" THEN "ALL"
                           ELSE d.projectionType
       IN projectionChanged(gsi, d) <=>
            \/ gsi.projection.projectionType # declaredType
            \/ /\ declaredType = "INCLUDE"
               /\ Range(gsi.projection.nonKeyAttributes) # Range(d.nonKeyAttributes)

\* C32: shouldUpdateThroughput is false whenever no throughput is declared,
\* whatever the index has; otherwise it is true exactly when the index has
\* none or its read or write capacity differs; and the plan holds an UPDATE
\* for a declared name exactly when the index is listed, neither its key
\* schema nor its projection changed, and the throughput changed.
C32_ThroughputChangedExactly ==
  cycle.pc = "plan"
  => /\ \A i \in 1..Len(cycle.current), k \in 1..Len(cycle.desired) :
          LET gsi == cycle.current[i]
              d == cycle.desired[k]
          IN shouldUpdateThroughput(gsi, d) <=>
               /\ d.provisionedThroughput # <<>>
               /\ \/ gsi.provisionedThroughput = <<>>
                  \/ gsi.provisionedThroughput[1].readCapacityUnits #
                       d.provisionedThroughput[1].readCapacityUnits
                  \/ gsi.provisionedThroughput[1].writeCapacityUnits #
                       d.provisionedThroughput[1].writeCapacityUnits
     /\ \A k \in 1..Len(cycle.desired) :
          LET d == cycle.desired[k]
              listed == FindByName(cycle.current, d.indexName)
          IN (\E p \in 1..Len(CyclePlan) :
                CyclePlan[p].type = "UPDATE" /\ CyclePlan[p].indexName = d.indexName)
             <=> /\ listed # <<>>
                 /\ ~keySchemaChanged(listed[1], d)
                 /\ ~projectionChanged(listed[1], d)
                 /\ d.provisionedThroughput # <<>>
                 /\ listed[1].provisionedThroughput # d.provisionedThroughput

\* an index with throughput whose declared write capacity alone differs: the
\* plan is its UPDATE
C32_Witness ==
  /\ cycle.pc = "plan"
  /\ \E i \in 1..Len(cycle.current), k \in 1..Len(cycle.desired) :
       /\ cycle.current[i].indexName = cycle.desired[k].indexName
       /\ cycle.current[i].provisionedThroughput # <<>>
       /\ cycle.desired[k].provisionedThroughput # <<>>
       /\ cycle.current[i].provisionedThroughput[1].readCapacityUnits =
            cycle.desired[k].provisionedThroughput[1].readCapacityUnits
       /\ cycle.current[i].provisionedThroughput[1].writeCapacityUnits #
            cycle.desired[k].provisionedThroughput[1].writeCapacityUnits
       /\ PlannedTypes(cycle.desired[k].indexName) = <<"UPDATE">>

RECURSIVE TwoToThe(_)
TwoToThe(k) == IF k = 0 THEN 1 ELSE 2 * TwoToThe(k - 1)

\* C33: the sleep before retry k, k = 0 for the first retry, lasts d + j with
\* d = min(baseDelayMs * 2^k, maxDelayMs) and 0 <= j <= 20% of d; so no sleep
\* is longer than 1.2 * maxDelayMs.
C33_SleepIsCappedDelayPlusJitter ==
  retry.last = "sleep"
  => LET k == retry.sleeps - 1
         d == Min(retry.config.baseDelayMs * TwoToThe(k), retry.config.maxDelayMs)
         j == retry.slept - d
     IN /\ 0 <= j
        /\ 10 * j <= 2 * d
        /\ 10 * retry.slept <= 12 * retry.config.maxDelayMs

\* a sleep whose delay was cut down to maxDelayMs
C33_Witness ==
  /\ retry.last = "sleep"
  /\ retry.config.baseDelayMs * TwoToThe(retry.sleeps - 1) > retry.config.maxDelayMs
  /\ retry.slept > retry.config.maxDelayMs

\* the strings a thrown value offers as its code: its "code" field when that
\* is a string that is not empty, else its "name" field when that is one
OfferedCodes(error) ==
  IF error.kind \notin {"Error", "object"} THEN {}
  ELSE IF error.code \notin {"UNDEFINED", ""} THEN {error.code}
  ELSE IF error.name \notin {"UNDEFINED", ""} THEN {error.name}
  ELSE {}

\* C34: whether a failure is retried: a supplied predicate alone decides,
\* whatever retryableErrorCodes holds; without one the failure is retryable
\* exactly when the code taken from the thrown value (its "code" field, else
\* its "name" field, else none) is in retryableErrorCodes.  The last attempt
\* is never followed by a retry.
C34_RetryClassification ==
  (retry.last = "invoke" /\ retry.pc \in {"sleep", "failed"})
  => LET error == retry.lastError[1]
         retryable ==
           IF retry.customRetryRule # "none" THEN retry.customRetryRule = "always"
           ELSE OfferedCodes(error) \cap retry.config.retryableErrorCodes # {}
     IN (retry.pc = "sleep")
          <=> (retry.attempt # retry.config.maxRetries /\ retryable)

\* a thrown value with an empty code and a retryable name is retried
C34_Witness ==
  /\ retry.last = "invoke" /\ retry.pc = "sleep"
  /\ retry.customRetryRule = "none"
  /\ retry.lastError[1].code = ""
  /\ retry.lastError[1].name \in retry.config.retryableErrorCodes

\* what is wrong with the entry at position i of the declared list
DeclaredProblems(i) ==
  LET config == request.desired[i]
      KeyProblems(key, role) ==
        (IF IsBlank(key.name) THEN {<<i, "missingAttributeName", role>>} ELSE {})
        \cup (IF key.type \notin {"S", "N", "B"}
              THEN {<<i, "invalidType", role>>} ELSE {})
  IN (IF IsBlank(config.indexName) THEN {<<i, "missingIndexName", "entry">>}
      ELSE IF \E j \in 1..(i - 1) : request.desired[j].indexName = config.indexName
      THEN {<<i, "duplicateIndexName", "entry">>}
      ELSE {})
     \cup KeyProblems(config.partitionKey, "partitionKey")
     \cup (IF config.sortKey = <<>> THEN {}
           ELSE KeyProblems(config.sortKey[1], "sortKey"))
     \cup (IF config.projectionType \notin {"UNDEFINED", "ALL", "KEYS_ONLY", "INCLUDE"}
           THEN {<<i, "invalidProjectionType", "entry">>} ELSE {})

AllDeclaredProblems == UNION {DeclaredProblems(i) : i \in 1..Len(request.desired)}

\* C35: validateGsiConfigurations returns no issue exactly when every entry
\* has an index name that is not blank and is unique in the list, a partition
\* key with a name that is not blank and a type of S, N or B, a sort key, if
\* any, of the same kind, and a projection type, if any, of ALL, KEYS_ONLY or
\* INCLUDE; otherwise it reports every problem of every entry.
C35_ValidationReportsEveryProblem ==
  (lastCall.entry = "start" /\ lastCall.kind \in {"Create", "Update"})
  => /\ (lastCall.issues = <<>>) <=> (AllDeclaredProblems = {})
     /\ Len(lastCall.issues) = Cardinality(AllDeclaredProblems)
     /\ \A problem \in AllDeclaredProblems :
          \E n \in 1..Len(lastCall.issues) :
            /\ lastCall.issues[n].position = problem[1]
            /\ lastCall.issues[n].kind = problem[2]

\* a declared list of two entries with problems in both, three or more in all
C35_Witness ==
  /\ lastCall.entry = "start" /\ lastCall.error = "validation"
  /\ Len(lastCall.issues) >= 3
  /\ \E m, n \in 1..Len(lastCall.issues) :
       lastCall.issues[m].position # lastCall.issues[n].position

\* the waiter has returned or has thrown its timeout error
WaiterEnded == waiter.pc \in {"returned", "timedOut"}

\* min(base * 2^k, cap), without forming powers beyond the cap
RECURSIVE CappedDoubling(_, _, _)
CappedDoubling(base, k, cap) ==
  IF base >= cap THEN cap
  ELSE IF k = 0 THEN base
  ELSE CappedDoubling(2 * base, k - 1, cap)

\* what a waiter may have come to
WaiterOutcomeJustified ==
  /\ waiter.pc = "returned" => targetReached(table, waiter)
  /\ waiter.pc = "timedOut" => waiter.elapsed > DEFAULT_WAITER_CONFIG.timeoutMs
  /\ waiter.pc = "sleep" => waiter.elapsed <= DEFAULT_WAITER_CONFIG.timeoutMs
  /\ (waiter.pc = "probe" /\ waiter.probes > 0)
     => waiter.slept =
          <<CappedDoubling(DEFAULT_WAITER_CONFIG.initialDelayMs, waiter.probes - 1,
                           DEFAULT_WAITER_CONFIG.maxDelayMs)>>

\* the probe that sees the target is the one that returns
ReturnsAtOnce ==
  (waiter.pc = "probe" /\ waiter'.probes = waiter.probes + 1)
  => (waiter'.pc = "returned" <=> targetReached(table, waiter))

\* C36: the blocking waiters end in every run in which time moves on: the
\* probe that sees the target (for DELETED: the index is not listed) returns,
\* and a probe that does not see it fails with the timeout error once more
\* than timeoutMs have passed; the sleep after probe k, k = 0 for the first,
\* lasts min(initialDelayMs * 2^k, maxDelayMs): 3 s, 6 s, 12 s, 20 s, 20 s, ...
C36_WaitersEnd ==
  /\ []WaiterOutcomeJustified
  /\ [][ReturnsAtOnce]_vars
  /\ <>WaiterEnded

\* a waiter gave up after the sleeps had reached maxDelayMs
C36_Witness ==
  /\ waiter.pc = "timedOut"
  /\ waiter.probes > 5
  /\ waiter.slept = <<DEFAULT_WAITER_CONFIG.maxDelayMs>>

\* C37: a poll never answers "complete" while the listing it read last shows
\* a resolved candidate as CREATING, UPDATING or DELETING.
C37_NoCompleteWhileInFlight ==
  [][(lastCall' # lastCall /\ lastCall'.entry = "poll"
        /\ lastCall'.outcome = "complete")
     => LET candidates ==
              resolveCurrentForPlanning(lastCall'.kind, getCurrentGSIs(table'),
                                        lastCall'.managedNames).candidates
        IN \A i \in 1..Len(candidates) :
             candidates[i].indexStatus \notin InFlightStatuses]_vars

\* a Delete poll that read its only candidate as DELETING found it gone at
\* its second look and answered "complete"
C37_Witness ==
  /\ lastCall.entry = "poll" /\ lastCall.kind = "Delete"
  /\ lastCall.outcome = "complete"
  /\ Len(lastCall.candidates) = 1
  /\ lastCall.candidates[1].indexStatus = "DELETING"

PlannedAt(name, types) ==
  {p \in 1..Len(CyclePlan) :
     CyclePlan[p].indexName = name /\ CyclePlan[p].type \in types}

\* C39: in every plan for a listing and a declared list with unique names an
\* index name has at most one DELETE and at most one CREATE or UPDATE, never
\* an UPDATE beside a DELETE or a CREATE; a DELETE names a listed index and
\* carries it as currentConfiguration; a CREATE or UPDATE names a declared
\* entry and carries it as desiredConfiguration; and the plan is empty exactly
\* when the listing and the declared list have the same names and no change
\* predicate holds for any of them.
C39_PlanWellFormed ==
  cycle.pc = "plan"
  => /\ \A p \in 1..Len(CyclePlan) :
          LET name == CyclePlan[p].indexName
          IN /\ Cardinality(PlannedAt(name, {"DELETE"})) <= 1
             /\ Cardinality(PlannedAt(name, {"CREATE", "UPDATE"})) <= 1
             /\ PlannedAt(name, {"UPDATE"}) # {}
                => PlannedAt(name, {"DELETE", "CREATE"}) = {}
             /\ CyclePlan[p].type = "DELETE"
                => /\ FindByName(cycle.current, name) # <<>>
                   /\ CyclePlan[p].currentConfiguration = FindByName(cycle.current, name)
             /\ CyclePlan[p].type \in {"CREATE", "UPDATE"}
                => \E k \in 1..Len(cycle.desired) :
                     /\ cycle.desired[k].indexName = name
                     /\ CyclePlan[p].desiredConfiguration = <<cycle.desired[k]>>
     /\ (CyclePlan = <<>>)
        <=> /\ Range(IndexNames(cycle.current)) = Range(IndexNames(cycle.desired))
            /\ \A i \in 1..Len(cycle.current), k \in 1..Len(cycle.desired) :
                 cycle.current[i].indexName = cycle.desired[k].indexName
                 => /\ ~keySchemaChanged(cycle.current[i], cycle.desired[k])
                    /\ ~projectionChanged(cycle.current[i], cycle.desired[k])
                    /\ ~shouldUpdateThroughput(cycle.current[i], cycle.desired[k])

\* a plan with the DELETE and the CREATE of one name beside the UPDATE of
\* another
C39_Witness ==
  /\ cycle.pc = "plan"
  /\ \E p, q, r \in 1..Len(CyclePlan) :
       /\ CyclePlan[p].type = "DELETE" /\ CyclePlan[q].type = "CREATE"
       /\ CyclePlan[p].indexName = CyclePlan[q].indexName
       /\ CyclePlan[p].currentConfiguration # <<>>
       /\ CyclePlan[r].type = "UPDATE"

\* the declared entry d differs from the configuration c only in the type of
\* a key attribute, or in non-key attributes that its projection type, not
\* being INCLUDE, does not use
DiffersInTypesOrUnusedAttributes(c, d) ==
  /\ c # d
  /\ c.indexName = d.indexName
  /\ c.partitionKey.name = d.partitionKey.name
  /\ (c.sortKey = <<>>) <=> (d.sortKey = <<>>)
  /\ c.sortKey # <<>> => c.sortKey[1].name = d.sortKey[1].name
  /\ c.projectionType = d.projectionType
  /\ d.projectionType = "INCLUDE" => c.nonKeyAttributes = d.nonKeyAttributes
  /\ c.provisionedThroughput = d.provisionedThroughput

\* C40: the planner compares key attributes by name only: for a declared
\* entry that differs from the configuration of the listed index only in the
\* type of its partition or sort key, or only in nonKeyAttributes while its
\* projection type is not INCLUDE, the plan holds no operation.
C40_TypesAndUnusedAttributesIgnored ==
  cycle.pc = "plan"
  => \A i \in 1..Len(cycle.current), k \in 1..Len(cycle.desired),
        c \in CycleDesiredPool :
       (/\ cycle.current[i] = GSIInfo(c, "ACTIVE")
        /\ DiffersInTypesOrUnusedAttributes(c, cycle.desired[k]))
       => PlannedTypes(cycle.desired[k].indexName) = <<>>

\* an index made with a partition key of type S beside a declaration of the
\* same key with type N, and nothing planned for it
C40_Witness ==
  /\ cycle.pc = "plan"
  /\ \E i \in 1..Len(cycle.current), k \in 1..Len(cycle.desired) :
       /\ cycle.current[i] = GSIInfo(CfgA, "ACTIVE")
       /\ cycle.desired[k] = CfgAN
       /\ PlannedTypes("GSI1") = <<>>

====
